---- MODULE Spec2Model ----
(***************************************************************************)
(* A model of pylox, a tree-walking interpreter for Lox: the Scanner, the  *)
(* Parser, the Resolver, the Interpreter and the driver (run, run_file,    *)
(* run_prompt).  Source text is a sequence of one-character strings;       *)
(* indices into it are 0-based as in the Python code.  Six                 *)
(* specifications share the variables: SpecScan (the Scanner on every      *)
(* short source), SpecComment (the Scanner on sources that open a block    *)
(* comment), SpecParse (the loop of Parser.parse on sources put together   *)
(* from fragments), SpecResolve (the Resolver's scope stack), SpecEqual    *)
(* (the Interpreter on one comparison) and Spec (the driver on whole       *)
(* programs).                                                              *)
(***************************************************************************)
EXTENDS Integers, Sequences, FiniteSets, TLC

VARIABLES
    pc,                 \* position of the process being modelled
    source,             \* Scanner.source / the argument of run()
    scanner,            \* Scanner fields: tokens, start, current, line
    had_error,          \* HadError.had_error
    had_runtime_error,  \* HadError.had_runtime_error
    stderr,             \* lines written to sys.stderr
    stdout,             \* what was written to sys.stdout, one entry per write
    mode,               \* "file" for run_file, "repl" for run_prompt
    file,               \* the text of the file run_file is started on
    stdin,              \* the lines sys.stdin still holds
    parsed,             \* run(): statements, the list parse() returned
    parser,             \* run(): the Parser
    resolver,           \* run(): the Resolver
    INTERPRETER,        \* lox.INTERPRETER
    stmt_index,         \* interpret(): position of the loop over statements
    exit_status,        \* the status the process ended with
    ran,                \* the stages the current run() has entered
    reported,           \* the stages that reported an error in the current run()
    next_id             \* identity of the next AST node created

scan_vars == <<pc, source, scanner, had_error, had_runtime_error, stderr, stdout>>
run_vars ==
    <<mode, file, stdin, parsed, parser, resolver, INTERPRETER, stmt_index, exit_status, ran,
      next_id>>
vars == <<scan_vars, run_vars, reported>>

(***************************************************************************)
(* Bounds of the model.                                                    *)
(***************************************************************************)
MaxSrcLen == 4
\* lines typed at the prompt
MaxLines == 2
\* while-loop iterations and calls one interpret() may make
MaxSteps == 6
\* fraction digits kept of a quotient
FractionDigits == 3
\* characters after the "/*" of a source of SpecComment
MaxComment == 5
\* fragments of a source of SpecParse
MaxFragments == 4

(***************************************************************************)
(* Sequences helpers.                                                      *)
(***************************************************************************)
Last(s) == s[Len(s)]

\* Python slice s[a:b] with 0-based a, b and 0 <= a
Slice(s, a, b) == SubSeq(s, a + 1, IF b > Len(s) THEN Len(s) ELSE b)

RECURSIVE SeqsUpTo(_, _)
SeqsUpTo(S, n) ==
    IF n = 0 THEN {<<>>}
    ELSE LET shorter == SeqsUpTo(S, n - 1)
         IN  shorter \cup {Append(s, x) : s \in {t \in shorter : Len(t) = n - 1}, x \in S}

(***************************************************************************)
(* Values: a tagged record.  t is the kind; a number is the decimal        *)
(* n / 10^e with no trailing zero in its fraction; a string is s.          *)
(***************************************************************************)
Value(t, n, e, s) == [t |-> t, n |-> n, e |-> e, s |-> s]
NoneLiteral == Value("nil", 0, 0, <<>>)
StrValue(s) == Value("str", 0, 0, s)

\* a whole decimal keeps no fraction digits, as float("1.0") == float("1")
RECURSIVE NormDecimal(_, _)
NormDecimal(n, e) ==
    IF e > 0 /\ n % 10 = 0 THEN NormDecimal(n \div 10, e - 1) ELSE Value("num", n, e, <<>>)

DigitValue(c) ==
    CASE c = "0" -> 0 [] c = "1" -> 1 [] c = "2" -> 2 [] c = "3" -> 3 [] c = "4" -> 4
      [] c = "5" -> 5 [] c = "6" -> 6 [] c = "7" -> 7 [] c = "8" -> 8 [] c = "9" -> 9

\* float(text) for the lexemes number() produces: digits, optionally "." digits
RECURSIVE ParseFloat(_, _, _, _)
ParseFloat(text, i, n, e) ==
    IF i > Len(text) THEN NormDecimal(n, IF e < 0 THEN 0 ELSE e)
    ELSE IF text[i] = "." THEN ParseFloat(text, i + 1, n, 0)
    ELSE ParseFloat(text, i + 1, 10 * n + DigitValue(text[i]), IF e < 0 THEN e ELSE e + 1)

float(text) == ParseFloat(text, 1, 0, -1)

(***************************************************************************)
(* error.py: report() writes one line to stderr and sets had_error.        *)
(***************************************************************************)
Diag(line, where, lexeme, message) ==
    [line |-> line, where |-> where, lexeme |-> lexeme, message |-> message]

\* error.error(line: int, message) -> _error_line -> report(line, "", message)
error_line(line, message) == Diag(line, "", <<>>, message)

(***************************************************************************)
(* scanner.py                                                              *)
(***************************************************************************)
Token(type, lexeme, literal, line) ==
    [type |-> type, lexeme |-> lexeme, literal |-> literal, line |-> line]

KEYWORDS ==
    { <<<<"a","n","d">>, "AND">>, <<<<"c","l","a","s","s">>, "CLASS">>,
      <<<<"e","l","s","e">>, "ELSE">>, <<<<"f","a","l","s","e">>, "FALSE">>,
      <<<<"f","o","r">>, "FOR">>, <<<<"f","u","n">>, "FUN">>, <<<<"i","f">>, "IF">>,
      <<<<"n","i","l">>, "NIL">>, <<<<"o","r">>, "OR">>,
      <<<<"p","r","i","n","t">>, "PRINT">>, <<<<"r","e","t","u","r","n">>, "RETURN">>,
      <<<<"s","u","p","e","r">>, "SUPER">>, <<<<"t","h","i","s">>, "THIS">>,
      <<<<"t","r","u","e">>, "TRUE">>, <<<<"v","a","r">>, "VAR">>,
      <<<<"w","h","i","l","e">>, "WHILE">>, <<<<"b","r","e","a","k">>, "BREAK">> }

\* KEYWORDS.get(text, TokenType.IDENTIFIER)
KeywordType(text) ==
    IF \E k \in KEYWORDS : k[1] = text
    THEN (CHOOSE k \in KEYWORDS : k[1] = text)[2]
    ELSE "IDENTIFIER"

NUL == "NUL"   \* the "\0" that peek() returns at the end of the source

Digits == {"0", "1", "2", "3", "4", "5", "6", "7", "8", "9"}
Letters ==
    {"a", "b", "c", "d", "e", "f", "g", "h", "i", "j", "k", "l", "m", "n", "o", "p", "q",
     "r", "s", "t", "u", "v", "w", "x", "y", "z", "A", "B", "C", "P"}

is_digit(char) == char \in Digits
is_alpha(char) == char \in Letters \/ char = "_"
is_alpha_numeric(char) == is_digit(char) \/ is_alpha(char)

\* Scanner.is_at_end, for a scanner record sc over the source src
is_at_end(src, sc) == sc.current >= Len(src)

Scanner_peek(src, sc) == IF is_at_end(src, sc) THEN NUL ELSE src[sc.current + 1]

peek_next(src, sc) == IF sc.current + 1 >= Len(src) THEN NUL ELSE src[sc.current + 2]

\* Scanner.advance: the scanner after consuming one character
Scanner_advance(sc) == [sc EXCEPT !.current = @ + 1]

\* Scanner.match: [hit, sc]
Scanner_match(src, sc, expected) ==
    IF is_at_end(src, sc) \/ src[sc.current + 1] # expected
    THEN [hit |-> FALSE, sc |-> sc]
    ELSE [hit |-> TRUE, sc |-> Scanner_advance(sc)]

add_token(src, sc, type, literal) ==
    [sc EXCEPT !.tokens =
        Append(@, Token(type, Slice(src, sc.start, sc.current), literal, sc.line))]

\* a scanner step yields the scanner and the diagnostics it reported
Scanned(sc, reports) == [sc |-> sc, reports |-> reports]

\* the while loop of Scanner.string
RECURSIVE StringLoop(_, _)
StringLoop(src, sc) ==
    IF Scanner_peek(src, sc) # "\"" /\ ~is_at_end(src, sc)
    THEN StringLoop(src,
            Scanner_advance(IF Scanner_peek(src, sc) = "\n"
                            THEN [sc EXCEPT !.line = @ + 1] ELSE sc))
    ELSE sc

string(src, sc0) ==
    LET sc == StringLoop(src, sc0)
    IN  IF is_at_end(src, sc)
        THEN Scanned(sc, <<error_line(sc.line, "Unterminated string.")>>)
        ELSE LET closed == Scanner_advance(sc)
                 value == Slice(src, closed.start + 1, closed.current - 1)
             IN  Scanned(add_token(src, closed, "STRING", StrValue(value)), <<>>)

RECURSIVE DigitLoop(_, _)
DigitLoop(src, sc) ==
    IF is_digit(Scanner_peek(src, sc)) THEN DigitLoop(src, Scanner_advance(sc)) ELSE sc

number(src, sc0) ==
    LET int == DigitLoop(src, sc0)
        sc == IF Scanner_peek(src, int) = "." /\ is_digit(peek_next(src, int))
              THEN DigitLoop(src, Scanner_advance(int))
              ELSE int
    IN  Scanned(add_token(src, sc, "NUMBER", float(Slice(src, sc.start, sc.current))), <<>>)

RECURSIVE IdentLoop(_, _)
IdentLoop(src, sc) ==
    IF is_alpha_numeric(Scanner_peek(src, sc)) THEN IdentLoop(src, Scanner_advance(sc)) ELSE sc

identifier(src, sc0) ==
    LET sc == IdentLoop(src, sc0)
    IN  Scanned(add_token(src, sc, KeywordType(Slice(src, sc.start, sc.current)), NoneLiteral),
                <<>>)

\* "while self.peek() != '\n' and not self.is_at_end(): self.advance()"
RECURSIVE LineCommentLoop(_, _)
LineCommentLoop(src, sc) ==
    IF Scanner_peek(src, sc) # "\n" /\ ~is_at_end(src, sc)
    THEN LineCommentLoop(src, Scanner_advance(sc))
    ELSE sc

\* a comment loop that stops in front of the "*" instead of consuming it
RECURSIVE BlockCommentLoop_peeking(_, _)
BlockCommentLoop_peeking(src, sc) ==
    IF is_at_end(src, sc) THEN sc
    ELSE IF src[sc.current + 1] # "*" THEN BlockCommentLoop_peeking(src, Scanner_advance(sc))
    ELSE sc

\* a comment loop that counts the lines it passes, as the loop of string() does
RECURSIVE BlockCommentLoop_counting_lines(_, _)
BlockCommentLoop_counting_lines(src, sc) ==
    IF is_at_end(src, sc) THEN sc
    ELSE IF src[sc.current + 1] # "*"
    THEN BlockCommentLoop_counting_lines(src,
            Scanner_advance(IF src[sc.current + 1] = "\n"
                            THEN [sc EXCEPT !.line = @ + 1] ELSE sc))
    ELSE Scanner_advance(sc)

\* a comment loop that a line break stops as a "*" does
RECURSIVE BlockCommentLoop_one_line(_, _)
BlockCommentLoop_one_line(src, sc) ==
    IF is_at_end(src, sc) THEN sc
    ELSE IF src[sc.current + 1] \notin {"*", "\n"}
    THEN BlockCommentLoop_one_line(src, Scanner_advance(sc))
    ELSE Scanner_advance(sc)

\* "while not self.is_at_end() and self.advance() != '*': pass"
RECURSIVE BlockCommentLoop(_, _)
BlockCommentLoop(src, sc) ==
    IF is_at_end(src, sc) THEN sc
    ELSE IF src[sc.current + 1] # "*" THEN BlockCommentLoop(src, Scanner_advance(sc))
    ELSE Scanner_advance(sc)

SingleCharTokens ==
    { <<"(", "LEFT_PAREN">>, <<")", "RIGHT_PAREN">>, <<"{", "LEFT_BRACE">>,
      <<"}", "RIGHT_BRACE">>, <<",", "COMMA">>, <<".", "DOT">>, <<"-", "MINUS">>,
      <<"+", "PLUS">>, <<";", "SEMICOLON">>, <<"*", "STAR">>, <<"?", "TERNARY">>,
      <<":", "COLON">> }

OneOrTwoCharTokens ==
    { <<"!", "BANG", "BANG_EQUAL">>, <<"=", "EQUAL", "EQUAL_EQUAL">>,
      <<"<", "LESS", "LESS_EQUAL">>, <<">", "GREATER", "GREATER_EQUAL">> }

\* Scanner.scan_single_token, with the "self.start = self.current" that precedes it
scan_single_token(src, sc0) ==
    LET char == src[sc0.current + 1]
        sc == Scanner_advance([sc0 EXCEPT !.start = sc0.current])
    IN  IF \E p \in SingleCharTokens : p[1] = char
        THEN Scanned(add_token(src, sc, (CHOOSE p \in SingleCharTokens : p[1] = char)[2],
                               NoneLiteral), <<>>)
        ELSE IF \E p \in OneOrTwoCharTokens : p[1] = char
        THEN LET p == CHOOSE q \in OneOrTwoCharTokens : q[1] = char
                 m == Scanner_match(src, sc, "=")
             IN  Scanned(add_token(src, m.sc, IF m.hit THEN p[3] ELSE p[2], NoneLiteral), <<>>)
        ELSE IF char = "/"
        THEN LET line == Scanner_match(src, sc, "/")
                 block == Scanner_match(src, sc, "*")
             IN  IF line.hit THEN Scanned(LineCommentLoop(src, line.sc), <<>>)
                 ELSE IF block.hit
                 THEN LET c == BlockCommentLoop(src, block.sc)
                      IN  IF is_at_end(src, c)
                          THEN Scanned(c, <<error_line(c.line, "Unclosed block comment.")>>)
                          ELSE IF Scanner_peek(src, c) # "/"
                          THEN Scanned(c, <<error_line(c.line, "Unexpected character.")>>)
                          ELSE Scanned(Scanner_advance(c), <<>>)
                 ELSE Scanned(add_token(src, sc, "SLASH", NoneLiteral), <<>>)
        ELSE IF char \in {" ", "\r", "\t"} THEN Scanned(sc, <<>>)
        ELSE IF char = "\n" THEN Scanned([sc EXCEPT !.line = @ + 1], <<>>)
        ELSE IF char = "\"" THEN string(src, sc)
        ELSE IF is_digit(char) THEN number(src, sc)
        ELSE IF is_alpha(char) THEN identifier(src, sc)
        ELSE Scanned(sc, <<error_line(sc.line, "Unexpected character.")>>)

\* Scanner.__init__
NewScanner == [tokens |-> <<>>, start |-> 0, current |-> 0, line |-> 1]

\* a scan_tokens that returns its tokens without appending the EOF token
append_eof_unless_error(sc) == sc

\* the end of Scanner.scan_tokens: the EOF token is appended
append_eof(sc) == [sc EXCEPT !.tokens = Append(@, Token("EOF", <<>>, NoneLiteral, sc.line))]

\* Scanner.scan_tokens as one function: [sc, reports]
RECURSIVE ScanLoop(_, _)
ScanLoop(src, s) ==
    IF is_at_end(src, s.sc) THEN Scanned(append_eof(s.sc), s.reports)
    ELSE LET r == scan_single_token(src, s.sc)
         IN  ScanLoop(src, Scanned(r.sc, s.reports \o r.reports))

scan_tokens(src) == ScanLoop(src, Scanned(NewScanner, <<>>))

(***************************************************************************)
(* error.py: error(token, message) -> _error_token -> report(...)          *)
(***************************************************************************)
error_token(token, message) ==
    IF token.type = "EOF"
    THEN Diag(token.line, " at end", <<>>, message)
    ELSE Diag(token.line, " at '", token.lexeme, message)

(***************************************************************************)
(* expr.py, stmt.py: the AST.  A node is a record with its class in tag.   *)
(* The interpreter keys its side table by node identity, so the nodes that *)
(* are resolved (Variable, Assign, This, Super) carry an id, fresh per     *)
(* node created.                                                           *)
(***************************************************************************)
BoolValue(b) == Value("bool", IF b THEN 1 ELSE 0, 0, <<>>)

None == [tag |-> "None"]
Literal(value) == [tag |-> "Literal", value |-> value]
Grouping(e) == [tag |-> "Grouping", expression |-> e]
Unary(op, right) == [tag |-> "Unary", operator |-> op, right |-> right]
Binary(left, op, right) == [tag |-> "Binary", left |-> left, operator |-> op, right |-> right]
Logical(left, op, right) == [tag |-> "Logical", left |-> left, operator |-> op, right |-> right]
Conditional(c, a, b) == [tag |-> "Conditional", condition |-> c, if_true |-> a, if_false |-> b]
Variable(id, name) == [tag |-> "Variable", id |-> id, name |-> name]
Assign(id, name, value) == [tag |-> "Assign", id |-> id, name |-> name, value |-> value]
Call(callee, paren, args) ==
    [tag |-> "Call", callee |-> callee, paren |-> paren, arguments |-> args]
Get(object, name) == [tag |-> "Get", object |-> object, name |-> name]
Set(object, name, value) == [tag |-> "Set", object |-> object, name |-> name, value |-> value]
This(id, keyword) == [tag |-> "This", id |-> id, keyword |-> keyword]
Super(id, keyword, method) == [tag |-> "Super", id |-> id, keyword |-> keyword, method |-> method]
Lambda(params, body) == [tag |-> "Lambda", params |-> params, body |-> body]

Expression(e) == [tag |-> "Expression", expression |-> e]
PrintStmt(e) == [tag |-> "Print", expression |-> e]
Var(name, init) == [tag |-> "Var", name |-> name, initializer |-> init]
Block(stmts) == [tag |-> "Block", statements |-> stmts]
If(c, a, b) == [tag |-> "If", condition |-> c, then_branch |-> a, else_branch |-> b]
While(c, body) == [tag |-> "While", condition |-> c, body |-> body]
Break == [tag |-> "Break"]
Function(name, fn) == [tag |-> "Function", name |-> name, function |-> fn]
Return(keyword, value) == [tag |-> "Return", keyword |-> keyword, value |-> value]
Class(name, superclass, methods) ==
    [tag |-> "Class", name |-> name, superclass |-> superclass, methods |-> methods]
InvalidDeclatation == [tag |-> "InvalidDeclatation"]

(***************************************************************************)
(* parser.py.  A parser record p holds Parser's fields (tokens, current,   *)
(* loop_depth), the diagnostics reported so far and the next node id.  A   *)
(* parsing method yields [p, ok, node]: ok is FALSE when it raised         *)
(* ParseError.                                                             *)
(***************************************************************************)
MaxArguments == 255

\* Parser.__init__; first_id stands for the identity of the nodes this parser will
\* create, distinct from every node created before
NewParser(tokens, first_id) ==
    [tokens |-> tokens, current |-> 0, loop_depth |-> 0, reports |-> <<>>,
     next_id |-> first_id]

Ok(p, node) == [p |-> p, ok |-> TRUE, node |-> node]
Raised(p) == [p |-> p, ok |-> FALSE, node |-> None]

Parser_peek(p) == p.tokens[p.current + 1]
\* tokens[current - 1]; Python's index -1 is the last token
previous(p) == IF p.current = 0 THEN Last(p.tokens) ELSE p.tokens[p.current]
Parser_is_at_end(p) == Parser_peek(p).type = "EOF"
check(p, t) == ~Parser_is_at_end(p) /\ Parser_peek(p).type = t
check2(p, t, extra) ==
    p.current + extra < Len(p.tokens) /\ p.tokens[p.current + extra + 1].type = t
Parser_advance(p) == IF ~Parser_is_at_end(p) THEN [p EXCEPT !.current = @ + 1] ELSE p

\* Parser.match(*types): [hit, p]
Parser_match(p, types) ==
    IF \E t \in types : check(p, t)
    THEN [hit |-> TRUE, p |-> Parser_advance(p)]
    ELSE [hit |-> FALSE, p |-> p]

\* Parser.error: the diagnostic is reported; the caller decides whether to raise
Parser_error(p, token, message) == [p EXCEPT !.reports = Append(@, error_token(token, message))]

consume(p, t, message) ==
    IF check(p, t)
    THEN Ok(Parser_advance(p), Parser_peek(p))
    ELSE Raised(Parser_error(p, Parser_peek(p), message))

NewId(p) == [p EXCEPT !.next_id = @ + 1]

\* the token types and the operand parser of each "lasbo" level
LasboTypes(level) ==
    CASE level = "factor" -> {"STAR", "SLASH"}
      [] level = "term" -> {"MINUS", "PLUS"}
      [] level = "comparison" -> {"GREATER", "GREATER_EQUAL", "LESS", "LESS_EQUAL"}
      [] level = "equality" -> {"BANG_EQUAL", "EQUAL_EQUAL"}
      [] level = "comma" -> {"COMMA"}

FunctionKindName(kind) ==
    CASE kind = "FUNCTION" -> "Expect function name."
      [] kind = "METHOD" -> "Expect method name."
      [] kind = "LAMBDA" -> "Expect lambda name."
FunctionKindParen(kind) ==
    CASE kind = "FUNCTION" -> "Expect '(' after function name."
      [] kind = "METHOD" -> "Expect '(' after method name."
      [] kind = "LAMBDA" -> "Expect '(' after lambda expression."
FunctionKindBody(kind) ==
    CASE kind = "FUNCTION" -> "Expect '{' before function body."
      [] kind = "METHOD" -> "Expect '{' before method body."
      [] kind = "LAMBDA" -> "Expect '{' before lambda body."

\* self.<name>(...): a call of one parsing method by another, p its argument or the
\* tuple of its two arguments
RECURSIVE Parser_rule(_, _)
RECURSIVE ParametersLoop(_, _)


expression(p) == Parser_rule("lasbo", <<"comma", p>>)

\* an assignment that returns the parsed value when the target is invalid
assignment_returning_value(p) ==
    LET expr == Parser_rule("or_expression", p)
    IN  IF ~expr.ok THEN expr
        ELSE LET m == Parser_match(expr.p, {"EQUAL"})
             IN  IF ~m.hit THEN expr
                 ELSE LET equals == previous(m.p)
                          value == Parser_rule("assignment", m.p)
                      IN  IF ~value.ok THEN value
                          ELSE IF expr.node.tag = "Variable"
                          THEN Ok(NewId(value.p),
                                  Assign(value.p.next_id, expr.node.name, value.node))
                          ELSE IF expr.node.tag = "Get"
                          THEN Ok(value.p, Set(expr.node.object, expr.node.name, value.node))
                          ELSE Ok(Parser_error(value.p, equals, "Invalid assignment target."),
                                  value.node)

assignment(p) ==
    LET expr == Parser_rule("or_expression", p)
    IN  IF ~expr.ok THEN expr
        ELSE LET m == Parser_match(expr.p, {"EQUAL"})
             IN  IF ~m.hit THEN expr
                 ELSE LET equals == previous(m.p)
                          value == Parser_rule("assignment", m.p)
                      IN  IF ~value.ok THEN value
                          ELSE IF expr.node.tag = "Variable"
                          THEN Ok(NewId(value.p),
                                  Assign(value.p.next_id, expr.node.name, value.node))
                          ELSE IF expr.node.tag = "Get"
                          THEN Ok(value.p, Set(expr.node.object, expr.node.name, value.node))
                          ELSE Ok(Parser_error(value.p, equals, "Invalid assignment target."),
                                  expr.node)

OrLoop(acc) ==
    LET m == Parser_match(acc.p, {"OR"})
    IN  IF ~m.hit THEN acc
        ELSE LET right == Parser_rule("and_expression", m.p)
             IN  IF ~right.ok THEN right
                 ELSE Parser_rule("OrLoop", Ok(right.p, Logical(acc.node, previous(m.p), right.node)))

or_expression(p) ==
    LET expr == Parser_rule("and_expression", p)
    IN  IF ~expr.ok THEN expr ELSE Parser_rule("OrLoop", expr)

AndLoop(acc) ==
    LET m == Parser_match(acc.p, {"AND"})
    IN  IF ~m.hit THEN acc
        ELSE LET right == Parser_rule("conditional", m.p)
             IN  IF ~right.ok THEN right
                 ELSE Parser_rule("AndLoop", Ok(right.p, Logical(acc.node, previous(m.p), right.node)))

and_expression(p) ==
    LET expr == Parser_rule("conditional", p)
    IN  IF ~expr.ok THEN expr ELSE Parser_rule("AndLoop", expr)

conditional(p) ==
    LET expr == Parser_rule("lasbo", <<"equality", p>>)
    IN  IF ~expr.ok THEN expr
        ELSE LET m == Parser_match(expr.p, {"TERNARY"})
             IN  IF ~m.hit THEN expr
                 ELSE LET if_true == Parser_rule("expression", m.p)
                      IN  IF ~if_true.ok THEN if_true
                          ELSE LET colon == consume(if_true.p, "COLON",
                                     "Expect ':' after if true branch of conditional expression.")
                               IN  IF ~colon.ok THEN colon
                                   ELSE LET if_false == Parser_rule("expression", colon.p)
                                        IN  IF ~if_false.ok THEN if_false
                                            ELSE Ok(if_false.p,
                                                    Conditional(expr.node, if_true.node,
                                                                if_false.node))

\* the getter of a lasbo level
LasboGetter(level) ==
    CASE level = "factor" -> <<"unary">>
      [] level = "term" -> <<"lasbo", "factor">>
      [] level = "comparison" -> <<"lasbo", "term">>
      [] level = "equality" -> <<"lasbo", "comparison">>
      [] level = "comma" -> <<"assignment">>

LasboOperand(level, p) ==
    Parser_rule(LasboGetter(level)[1],
                IF Len(LasboGetter(level)) = 2 THEN <<LasboGetter(level)[2], p>> ELSE p)

LasboLoop(level, acc) ==
    LET m == Parser_match(acc.p, LasboTypes(level))
    IN  IF ~m.hit THEN acc
        ELSE LET right == LasboOperand(level, m.p)
             IN  IF ~right.ok THEN right
                 ELSE Parser_rule("LasboLoop", <<level, Ok(right.p, Binary(acc.node, previous(m.p), right.node))>>)

\* lasbo: a left-associative series of binary operators
lasbo(level, p) ==
    LET expr == LasboOperand(level, p)
    IN  IF ~expr.ok THEN expr ELSE Parser_rule("LasboLoop", <<level, expr>>)

unary(p) ==
    LET m == Parser_match(p, {"BANG", "MINUS"})
        f == Parser_match(p, {"FUN"})
    IN  IF m.hit
        THEN LET right == Parser_rule("unary", m.p)
             IN  IF ~right.ok THEN right ELSE Ok(right.p, Unary(previous(m.p), right.node))
        ELSE IF f.hit THEN Parser_rule("lambda_expression", <<f.p, "LAMBDA">>)
        ELSE Parser_rule("call", p)

\* the "while True" of finish_call; acc.node is the argument list so far
ArgumentsLoop(p, arguments) ==
    LET p1 == IF Len(arguments) >= MaxArguments
              THEN Parser_error(p, Parser_peek(p), "Can't have more than 255 arguments.")
              ELSE p
        arg == Parser_rule("lasbo", <<"equality", p1>>)
    IN  IF ~arg.ok THEN arg
        ELSE LET m == Parser_match(arg.p, {"COMMA"})
             IN  IF m.hit THEN Parser_rule("ArgumentsLoop", <<m.p, Append(arguments, arg.node)>>)
                 ELSE Ok(arg.p, Append(arguments, arg.node))

finish_call(p, callee) ==
    LET arguments == IF ~check(p, "RIGHT_PAREN")
                     THEN Parser_rule("ArgumentsLoop", <<p, <<>>>>) ELSE Ok(p, <<>>)
    IN  IF ~arguments.ok THEN arguments
        ELSE LET paren == consume(arguments.p, "RIGHT_PAREN", "Expect ')' after arguments.")
             IN  IF ~paren.ok THEN paren
                 ELSE Ok(paren.p, Call(callee, paren.node, arguments.node))

CallLoop(acc) ==
    LET paren == Parser_match(acc.p, {"LEFT_PAREN"})
        dot == Parser_match(acc.p, {"DOT"})
    IN  IF paren.hit
        THEN LET c == Parser_rule("finish_call", <<paren.p, acc.node>>)
             IN  IF ~c.ok THEN c ELSE Parser_rule("CallLoop", c)
        ELSE IF dot.hit
        THEN LET name == consume(dot.p, "IDENTIFIER", "Expect property name after '.'.")
             IN  IF ~name.ok THEN name ELSE Parser_rule("CallLoop", Ok(name.p, Get(acc.node, name.node)))
        ELSE acc

call(p) ==
    LET expr == Parser_rule("primary", p)
    IN  IF ~expr.ok THEN expr ELSE Parser_rule("CallLoop", expr)

MissingOperandTypes ==
    {"BANG_EQUAL", "EQUAL_EQUAL", "GREATER", "GREATER_EQUAL", "LESS", "LESS_EQUAL", "PLUS",
     "SLASH", "STAR"}

primary(p) ==
    LET adv == Parser_advance(p)
        tok == Parser_peek(p)
    IN  IF check(p, "FALSE") THEN Ok(adv, Literal(BoolValue(FALSE)))
        ELSE IF check(p, "TRUE") THEN Ok(adv, Literal(BoolValue(TRUE)))
        ELSE IF check(p, "NIL") THEN Ok(adv, Literal(NoneLiteral))
        ELSE IF check(p, "NUMBER") \/ check(p, "STRING") THEN Ok(adv, Literal(tok.literal))
        ELSE IF check(p, "SUPER")
        THEN LET dot == consume(adv, "DOT", "Expect '.' after 'super'.")
             IN  IF ~dot.ok THEN dot
                 ELSE LET method == consume(dot.p, "IDENTIFIER", "Expect superclass method name.")
                      IN  IF ~method.ok THEN method
                          ELSE Ok(NewId(method.p), Super(method.p.next_id, tok, method.node))
        ELSE IF check(p, "THIS") THEN Ok(NewId(adv), This(adv.next_id, tok))
        ELSE IF check(p, "IDENTIFIER") THEN Ok(NewId(adv), Variable(adv.next_id, tok))
        ELSE IF check(p, "LEFT_PAREN")
        THEN LET expr == Parser_rule("expression", adv)
             IN  IF ~expr.ok THEN expr
                 ELSE LET paren == consume(expr.p, "RIGHT_PAREN", "Expect ')' after expression.")
                      IN  IF ~paren.ok THEN paren ELSE Ok(paren.p, Grouping(expr.node))
        ELSE IF \E t \in MissingOperandTypes : check(p, t)
        THEN Raised(Parser_error(adv, tok, "Missing left-hand operand."))
        ELSE Raised(Parser_error(p, tok, "Expected expression."))

\* the "while True" of lambda_expression over the parameters
ParametersLoop(p, parameters) ==
    LET p1 == IF Len(parameters) >= MaxArguments
              THEN Parser_error(p, Parser_peek(p), "Can't have more than 255 parameters.")
              ELSE p
        name == consume(p1, "IDENTIFIER", "Expected parameter name.")
    IN  IF ~name.ok THEN name
        ELSE LET m == Parser_match(name.p, {"COMMA"})
             IN  IF m.hit THEN ParametersLoop(m.p, Append(parameters, name.node))
                 ELSE Ok(name.p, Append(parameters, name.node))

\* lambda_expression up to the '{' of the body: node is the parameter list
LambdaHead(p, kind) ==
    LET lp == consume(p, "LEFT_PAREN", FunctionKindParen(kind))
    IN  IF ~lp.ok THEN lp
        ELSE LET parameters == IF ~check(lp.p, "RIGHT_PAREN")
                               THEN ParametersLoop(lp.p, <<>>) ELSE Ok(lp.p, <<>>)
             IN  IF ~parameters.ok THEN parameters
                 ELSE LET rp == consume(parameters.p, "RIGHT_PAREN",
                                        "Expect ')' after parameters.")
                      IN  IF ~rp.ok THEN rp
                          ELSE LET lb == consume(rp.p, "LEFT_BRACE", FunctionKindBody(kind))
                               IN  IF ~lb.ok THEN lb ELSE Ok(lb.p, parameters.node)

lambda_expression(p, kind) ==
    LET head == LambdaHead(p, kind)
        body == Parser_rule("block", head.p)
    IN  IF ~head.ok THEN head
        ELSE IF ~body.ok THEN body
        ELSE Ok(body.p, Lambda(head.node, body.node))

BlockLoop(acc) ==
    IF ~check(acc.p, "RIGHT_BRACE") /\ ~Parser_is_at_end(acc.p)
    THEN LET d == Parser_rule("declaration", acc.p)
         IN  IF ~d.ok THEN d ELSE Parser_rule("BlockLoop", Ok(d.p, Append(acc.node, d.node)))
    ELSE acc

block(p) ==
    LET statements == Parser_rule("BlockLoop", Ok(p, <<>>))
        rb == consume(statements.p, "RIGHT_BRACE", "Expect '}' after block.")
    IN  IF ~statements.ok THEN statements
        ELSE IF ~rb.ok THEN rb ELSE Ok(rb.p, statements.node)

print_statement(p) ==
    LET value == Parser_rule("expression", p)
    IN  IF ~value.ok THEN value
        ELSE LET semi == consume(value.p, "SEMICOLON", "Expect ';' after value.")
             IN  IF ~semi.ok THEN semi ELSE Ok(semi.p, PrintStmt(value.node))

expression_statement(p) ==
    LET expr == Parser_rule("expression", p)
    IN  IF ~expr.ok THEN expr
        ELSE LET semi == consume(expr.p, "SEMICOLON", "Expect ';' after expression.")
             IN  IF ~semi.ok THEN semi ELSE Ok(semi.p, Expression(expr.node))

return_statement(p) ==
    LET keyword == previous(p)
        value == IF ~check(p, "SEMICOLON") THEN Parser_rule("expression", p) ELSE Ok(p, None)
    IN  IF ~value.ok THEN value
        ELSE LET semi == consume(value.p, "SEMICOLON", "Expect ';' after return value.")
             IN  IF ~semi.ok THEN semi ELSE Ok(semi.p, Return(keyword, value.node))

var_declaration(p) ==
    LET name == consume(p, "IDENTIFIER", "Expect variable name.")
    IN  IF ~name.ok THEN name
        ELSE LET m == Parser_match(name.p, {"EQUAL"})
                 initializer == IF m.hit THEN Parser_rule("expression", m.p) ELSE Ok(name.p, None)
             IN  IF ~initializer.ok THEN initializer
                 ELSE LET semi == consume(initializer.p, "SEMICOLON",
                                          "Expect ';' after variable declaration.")
                      IN  IF ~semi.ok THEN semi
                          ELSE Ok(semi.p, Var(name.node, initializer.node))

\* "self.loop_depth += 1; body = self.statement(); self.loop_depth -= 1": the
\* decrement is skipped when Parser_rule("statement", ) raises
LoopBody(p) ==
    LET body == Parser_rule("statement", [p EXCEPT !.loop_depth = @ + 1])
    IN  IF ~body.ok THEN body ELSE Ok([body.p EXCEPT !.loop_depth = @ - 1], body.node)

while_statement(p) ==
    LET lp == consume(p, "LEFT_PAREN", "Expect '(' after 'while'.")
    IN  IF ~lp.ok THEN lp
        ELSE LET condition == Parser_rule("expression", lp.p)
             IN  IF ~condition.ok THEN condition
                 ELSE LET rp == consume(condition.p, "RIGHT_PAREN", "Expect ')' after condition.")
                      IN  IF ~rp.ok THEN rp
                          ELSE LET body == Parser_rule("LoopBody", rp.p)
                               IN  IF ~body.ok THEN body
                                   ELSE Ok(body.p, While(condition.node, body.node))

\* the desugaring at the end of for_statement
ForDesugar(initializer, condition, increment, body) ==
    LET b1 == IF increment.tag # "None" THEN Block(<<body, Expression(increment)>>) ELSE body
        c1 == IF condition.tag = "None" THEN Literal(BoolValue(TRUE)) ELSE condition
        b2 == While(c1, b1)
    IN  IF initializer.tag # "None" THEN Block(<<initializer, b2>>) ELSE b2

for_statement(p) ==
    LET lp == consume(p, "LEFT_PAREN", "Expect '(' after 'for'.")
    IN  IF ~lp.ok THEN lp
        ELSE
        LET semi == Parser_match(lp.p, {"SEMICOLON"})
            var == Parser_match(lp.p, {"VAR"})
            initializer == IF semi.hit THEN Ok(semi.p, None)
                           ELSE IF var.hit THEN Parser_rule("var_declaration", var.p)
                           ELSE Parser_rule("expression_statement", lp.p)
        IN  IF ~initializer.ok THEN initializer
            ELSE
            LET condition == IF ~check(initializer.p, "SEMICOLON")
                             THEN Parser_rule("expression", initializer.p) ELSE Ok(initializer.p, None)
            IN  IF ~condition.ok THEN condition
                ELSE
                LET s2 == consume(condition.p, "SEMICOLON", "Expect ';' after loop condition.")
                IN  IF ~s2.ok THEN s2
                    ELSE
                    LET increment == IF ~check(s2.p, "RIGHT_PAREN")
                                     THEN Parser_rule("expression", s2.p) ELSE Ok(s2.p, None)
                    IN  IF ~increment.ok THEN increment
                        ELSE
                        LET rp == consume(increment.p, "RIGHT_PAREN",
                                          "Expect ')' after for clauses.")
                        IN  IF ~rp.ok THEN rp
                            ELSE LET body == Parser_rule("LoopBody", rp.p)
                                 IN  IF ~body.ok THEN body
                                     ELSE Ok(body.p,
                                             ForDesugar(initializer.node, condition.node,
                                                        increment.node, body.node))

break_statement(p) ==
    LET p1 == IF p.loop_depth = 0
              THEN Parser_error(p, previous(p), "Must be inside a loop to use 'break'.")
              ELSE p
        semi == consume(p1, "SEMICOLON", "Expected ';' after 'break'.")
    IN  IF ~semi.ok THEN semi ELSE Ok(semi.p, Break)

if_statement(p) ==
    LET lp == consume(p, "LEFT_PAREN", "Expect '(' after 'if'.")
    IN  IF ~lp.ok THEN lp
        ELSE LET condition == Parser_rule("expression", lp.p)
             IN  IF ~condition.ok THEN condition
                 ELSE
                 LET rp == consume(condition.p, "RIGHT_PAREN", "Expect ')' after if condition.")
                 IN  IF ~rp.ok THEN rp
                     ELSE
                     LET then_branch == Parser_rule("statement", rp.p)
                     IN  IF ~then_branch.ok THEN then_branch
                         ELSE
                         LET m == Parser_match(then_branch.p, {"ELSE"})
                             else_branch == IF m.hit THEN Parser_rule("statement", m.p)
                                            ELSE Ok(then_branch.p, None)
                         IN  IF ~else_branch.ok THEN else_branch
                             ELSE Ok(else_branch.p,
                                     If(condition.node, then_branch.node, else_branch.node))

statement(p) ==
    LET adv == Parser_advance(p)
    IN  CASE check(p, "FOR") -> Parser_rule("for_statement", adv)
          [] check(p, "IF") -> Parser_rule("if_statement", adv)
          [] check(p, "PRINT") -> Parser_rule("print_statement", adv)
          [] check(p, "RETURN") -> Parser_rule("return_statement", adv)
          [] check(p, "WHILE") -> Parser_rule("while_statement", adv)
          [] check(p, "BREAK") -> break_statement(adv)
          [] check(p, "LEFT_BRACE") ->
                LET b == Parser_rule("block", adv) IN IF ~b.ok THEN b ELSE Ok(b.p, Block(b.node))
          [] OTHER -> Parser_rule("expression_statement", p)

function(p, kind) ==
    LET name == consume(p, "IDENTIFIER", FunctionKindName(kind))
    IN  IF ~name.ok THEN name
        ELSE LET fn == Parser_rule("lambda_expression", <<name.p, kind>>)
             IN  IF ~fn.ok THEN fn ELSE Ok(fn.p, Function(name.node, fn.node))

MethodsLoop(p, methods) ==
    IF ~check(p, "RIGHT_BRACE") /\ ~Parser_is_at_end(p)
    THEN LET m == Parser_rule("function", <<p, "METHOD">>)
         IN  IF ~m.ok THEN m ELSE Parser_rule("MethodsLoop", <<m.p, Append(methods, m.node)>>)
    ELSE Ok(p, methods)

class_declaration(p) ==
    LET name == consume(p, "IDENTIFIER", "Expect class name.")
    IN  IF ~name.ok THEN name
        ELSE
        LET less == Parser_match(name.p, {"LESS"})
            supername == IF less.hit
                         THEN consume(less.p, "IDENTIFIER", "Expext superclass name.")
                         ELSE Ok(name.p, None)
        IN  IF ~supername.ok THEN supername
            ELSE
            LET p1 == IF less.hit THEN NewId(supername.p) ELSE supername.p
                superclass == IF less.hit
                              THEN Variable(supername.p.next_id, supername.node) ELSE None
                lb == consume(p1, "LEFT_BRACE", "Expected '{' before class body.")
            IN  IF ~lb.ok THEN lb
                ELSE LET methods == Parser_rule("MethodsLoop", <<lb.p, <<>>>>)
                     IN  IF ~methods.ok THEN methods
                         ELSE LET rb == consume(methods.p, "RIGHT_BRACE",
                                                "Expect '}' after class body.")
                              IN  IF ~rb.ok THEN rb
                                  ELSE Ok(rb.p, Class(name.node, superclass, methods.node))

SynchronizeTypes == {"CLASS", "FUN", "VAR", "FOR", "IF", "WHILE", "PRINT", "RETURN"}

\* the while loop of synchronize
RECURSIVE SynchronizeLoop(_)
SynchronizeLoop(p) ==
    IF Parser_is_at_end(p) THEN p
    ELSE IF previous(p).type = "SEMICOLON" THEN p
    ELSE IF Parser_peek(p).type \in SynchronizeTypes THEN p
    ELSE SynchronizeLoop(Parser_advance(p))

synchronize(p) == SynchronizeLoop(Parser_advance(p))

\* a declaration that does not synchronize after a ParseError raised at the
\* first token of the source
declaration_staying_at_start(p) ==
    LET adv == Parser_advance(p)
        r == CASE check(p, "CLASS") -> class_declaration(adv)
               [] check2(p, "IDENTIFIER", 1) /\ check(p, "FUN") -> function(adv, "FUNCTION")
               [] check(p, "VAR") -> var_declaration(adv)
               [] OTHER -> statement(p)
    IN  IF r.ok THEN r
        ELSE IF r.p.current = 0 THEN Ok(r.p, InvalidDeclatation)
        ELSE Ok(synchronize(r.p), InvalidDeclatation)

\* declaration() catches ParseError: it always yields a statement
declaration(p) ==
    LET adv == Parser_advance(p)
        r == CASE check(p, "CLASS") -> class_declaration(adv)
               [] check2(p, "IDENTIFIER", 1) /\ check(p, "FUN") -> function(adv, "FUNCTION")
               [] check(p, "VAR") -> var_declaration(adv)
               [] OTHER -> statement(p)
    IN  IF r.ok THEN r ELSE Ok(synchronize(r.p), InvalidDeclatation)

\* the parsing methods by name
Parser_rule(name, p) ==
    CASE name = "expression" -> expression(p)
      [] name = "assignment" -> assignment(p)
      [] name = "or_expression" -> or_expression(p)
      [] name = "and_expression" -> and_expression(p)
      [] name = "OrLoop" -> OrLoop(p)
      [] name = "AndLoop" -> AndLoop(p)
      [] name = "conditional" -> conditional(p)
      [] name = "unary" -> unary(p)
      [] name = "call" -> call(p)
      [] name = "CallLoop" -> CallLoop(p)
      [] name = "primary" -> primary(p)
      [] name = "block" -> block(p)
      [] name = "BlockLoop" -> BlockLoop(p)
      [] name = "declaration" -> declaration(p)
      [] name = "statement" -> statement(p)
      [] name = "class_declaration" -> class_declaration(p)
      [] name = "var_declaration" -> var_declaration(p)
      [] name = "for_statement" -> for_statement(p)
      [] name = "if_statement" -> if_statement(p)
      [] name = "print_statement" -> print_statement(p)
      [] name = "return_statement" -> return_statement(p)
      [] name = "while_statement" -> while_statement(p)
      [] name = "expression_statement" -> expression_statement(p)
      [] name = "LoopBody" -> LoopBody(p)
      [] name = "lasbo" -> lasbo(p[1], p[2])
      [] name = "LasboLoop" -> LasboLoop(p[1], p[2])
      [] name = "finish_call" -> finish_call(p[1], p[2])
      [] name = "ArgumentsLoop" -> ArgumentsLoop(p[1], p[2])
      [] name = "lambda_expression" -> lambda_expression(p[1], p[2])
      [] name = "MethodsLoop" -> MethodsLoop(p[1], p[2])
      [] name = "function" -> function(p[1], p[2])

\* Parser.parse: [p, ok, node], node the list of statements
Parsed(acc, d) == Ok(d.p, Append(acc.node, d.node))

RECURSIVE ParseLoop(_)
ParseLoop(acc) ==
    IF ~Parser_is_at_end(acc.p)
    THEN LET d == Parser_rule("declaration", acc.p)
         IN  IF ~d.ok THEN d ELSE ParseLoop(Parsed(acc, d))
    ELSE acc

parse(tokens, first_id) == ParseLoop(Ok(NewParser(tokens, first_id), <<>>))

(***************************************************************************)
(* Python dicts keyed by name (a lexeme): functions on a set of lexemes.   *)
(***************************************************************************)
EmptyDict == <<>>
DictSet(d, k, v) == [x \in DOMAIN d \cup {k} |-> IF x = k THEN v ELSE d[x]]
Has(d, k) == k \in DOMAIN d

SUPER == <<"s", "u", "p", "e", "r">>
THIS == <<"t", "h", "i", "s">>
INIT == <<"i", "n", "i", "t">>

(***************************************************************************)
(* resolver.py.  A resolver record z holds Resolver's fields (scopes,      *)
(* current_class, current_function), the interpreter's side table locals   *)
(* that Interpreter.resolve fills, and the diagnostics reported.           *)
(***************************************************************************)
NewResolver(locals) ==
    [scopes |-> <<>>, current_class |-> "NONE", current_function |-> "NONE",
     locals |-> locals, reports |-> <<>>]

Resolver_error(z, token, message) ==
    [z EXCEPT !.reports = Append(@, error_token(token, message))]

\* the bottom-most index i whose scope holds the name, 0 if none:
\* "for i, scope in enumerate(self.scopes): if name.lexeme in scope: ... return"
FirstScopeWith(scopes, lexeme) ==
    IF \E i \in 1..Len(scopes) : Has(scopes[i], lexeme)
    THEN CHOOSE i \in 1..Len(scopes) :
            /\ Has(scopes[i], lexeme)
            /\ \A j \in 1..(i - 1) : ~Has(scopes[j], lexeme)
    ELSE 0

\* Resolver.resolve_local with Interpreter.resolve; i is 1-based here, so the
\* code's "len(self.scopes) - 1 - i" is Len(scopes) - i
resolve_local(z, id, name, is_used) ==
    LET i == FirstScopeWith(z.scopes, name.lexeme)
    IN  IF i = 0 THEN z
        ELSE [z EXCEPT !.locals = DictSet(@, id, Len(z.scopes) - i),
                       !.scopes[i] = IF is_used THEN DictSet(@, name.lexeme, "USED") ELSE @]

begin_scope(z) == [z EXCEPT !.scopes = Append(@, EmptyDict)]
end_scope(z) == [z EXCEPT !.scopes = SubSeq(@, 1, Len(@) - 1)]

declare(z, name) ==
    IF Len(z.scopes) = 0 THEN z
    ELSE LET z1 == IF Has(Last(z.scopes), name.lexeme)
                   THEN Resolver_error(z, name,
                                       "Already a variable with this name in this scope.")
                   ELSE z
         IN  [z1 EXCEPT !.scopes[Len(z.scopes)] = DictSet(@, name.lexeme, "DECLARED")]

define(z, name) ==
    IF Len(z.scopes) = 0 THEN z
    ELSE [z EXCEPT !.scopes[Len(z.scopes)] = DictSet(@, name.lexeme, "DEFINED")]

\* "self.scopes[-1][key] = VariableStatus.USED"
MarkUsed(z, key) == [z EXCEPT !.scopes[Len(z.scopes)] = DictSet(@, key, "USED")]

RECURSIVE ResolveStmts(_, _, _), ResolveStmt(_, _), ResolveExpr(_, _), ResolveExprs(_, _, _)
RECURSIVE resolve_function(_, _, _), ResolveMethods(_, _, _)

\* resolve(list[Stmt]), from the i-th statement on: a statement is resolved, its
\* diagnostics added to those reported so far, before the next one is visited
ResolveStmts(z, stmts, i) ==
    IF i > Len(stmts) THEN z
    ELSE LET z1 == ResolveStmt(z, stmts[i])
         IN  IF Len(z1.reports) >= Len(z.reports) THEN ResolveStmts(z1, stmts, i + 1)
             ELSE z1

ResolveExprs(z, exprs, i) ==
    IF i > Len(exprs) THEN z ELSE ResolveExprs(ResolveExpr(z, exprs[i]), exprs, i + 1)

RECURSIVE DeclareParams(_, _, _)
DeclareParams(z, params, i) ==
    IF i > Len(params) THEN z
    ELSE DeclareParams(define(declare(z, params[i]), params[i]), params, i + 1)

resolve_function(z, fn, ftype) ==
    LET enclosing_function == z.current_function
        z1 == begin_scope([z EXCEPT !.current_function = ftype])
        z2 == DeclareParams(z1, fn.params, 1)
        z3 == end_scope(ResolveStmts(z2, fn.body, 1))
    IN  [z3 EXCEPT !.current_function = enclosing_function]

\* the loop over stmt.methods in Resolver.visit_class_stmt
ResolveMethods(z, methods, i) ==
    IF i > Len(methods) THEN z
    ELSE ResolveMethods(
            resolve_function(z, methods[i].function,
                             IF methods[i].name.lexeme = INIT THEN "INITIALIZER" ELSE "METHOD"),
            methods, i + 1)

Resolver_visit_class_stmt(z, stmt) ==
    LET enclosing_class == z.current_class
        inherits == stmt.superclass.tag # "None"
        z1 == declare([z EXCEPT !.current_class = "CLASS"], stmt.name)
        z2 == IF inherits /\ stmt.name.lexeme = stmt.superclass.name.lexeme
              THEN Resolver_error(z1, stmt.superclass.name, "A class can't inherit from itself.")
              ELSE z1
        z3 == IF inherits
              THEN ResolveExpr([z2 EXCEPT !.current_class = "SUBCLASS"], stmt.superclass)
              ELSE z2
        z4 == IF inherits THEN MarkUsed(begin_scope(z3), SUPER) ELSE z3
        z5 == MarkUsed(begin_scope(z4), THIS)
        z6 == ResolveMethods(z5, stmt.methods, 1)
        z7 == end_scope(define(z6, stmt.name))
        z8 == IF inherits THEN end_scope(z7) ELSE z7
    IN  [z8 EXCEPT !.current_class = enclosing_class]

Resolver_visit_return_stmt(z, stmt) ==
    LET z1 == IF z.current_function = "NONE"
              THEN Resolver_error(z, stmt.keyword, "Can't return from top-level code.")
              ELSE z
    IN  IF stmt.value.tag # "None"
        THEN ResolveExpr(
                IF z1.current_function = "INITIALIZER"
                THEN Resolver_error(z1, stmt.keyword, "Can't return a value from an initializer.")
                ELSE z1,
                stmt.value)
        ELSE z1

Resolver_visit_variable_expr(z, expr) ==
    LET z1 == IF /\ Len(z.scopes) > 0
                 /\ Has(Last(z.scopes), expr.name.lexeme)
                 /\ Last(z.scopes)[expr.name.lexeme] = "DECLARED"
              THEN Resolver_error(z, expr.name,
                                  "Can't read local variable in its own initializer.")
              ELSE z
    IN  resolve_local(z1, expr.id, expr.name, TRUE)

Resolver_visit_super_expr(z, expr) ==
    LET z1 == IF z.current_class = "NONE"
              THEN Resolver_error(z, expr.keyword, "Can't use 'super' outside of a class.")
              ELSE IF z.current_class # "SUBCLASS"
              THEN Resolver_error(z, expr.keyword,
                                  "Can't use 'super' in a class with no superclass.")
              ELSE z
    IN  resolve_local(z1, expr.id, expr.keyword, FALSE)

Resolver_visit_this_expr(z, expr) ==
    LET z1 == IF z.current_class = "NONE"
              THEN Resolver_error(z, expr.keyword, "Can't use 'this' outside of a class.")
              ELSE z
    IN  resolve_local(z1, expr.id, expr.keyword, FALSE)

\* stmt.accept(resolver)
ResolveStmt(z, stmt) ==
    CASE stmt.tag = "Block" -> end_scope(ResolveStmts(begin_scope(z), stmt.statements, 1))
      [] stmt.tag = "Var" ->
            LET z1 == declare(z, stmt.name)
                z2 == IF stmt.initializer.tag # "None"
                      THEN ResolveExpr(z1, stmt.initializer) ELSE z1
            IN  define(z2, stmt.name)
      [] stmt.tag = "Class" -> Resolver_visit_class_stmt(z, stmt)
      [] stmt.tag = "Function" ->
            resolve_function(define(declare(z, stmt.name), stmt.name), stmt.function, "FUNCTION")
      [] stmt.tag = "Expression" -> ResolveExpr(z, stmt.expression)
      [] stmt.tag = "If" ->
            LET z1 == ResolveStmt(ResolveExpr(z, stmt.condition), stmt.then_branch)
            IN  IF stmt.else_branch.tag # "None" THEN ResolveStmt(z1, stmt.else_branch) ELSE z1
      [] stmt.tag = "Print" -> ResolveExpr(z, stmt.expression)
      [] stmt.tag = "Return" -> Resolver_visit_return_stmt(z, stmt)
      [] stmt.tag = "While" -> ResolveStmt(ResolveExpr(z, stmt.condition), stmt.body)
      [] stmt.tag = "Break" -> z

\* expr.accept(resolver)
ResolveExpr(z, expr) ==
    CASE expr.tag = "Variable" -> Resolver_visit_variable_expr(z, expr)
      [] expr.tag = "Assign" ->
            resolve_local(ResolveExpr(z, expr.value), expr.id, expr.name, FALSE)
      [] expr.tag = "Lambda" -> resolve_function(z, expr, "FUNCTION")
      [] expr.tag \in {"Binary", "Logical"} -> ResolveExpr(ResolveExpr(z, expr.left), expr.right)
      [] expr.tag = "Call" -> ResolveExprs(ResolveExpr(z, expr.callee), expr.arguments, 1)
      [] expr.tag = "Grouping" -> ResolveExpr(z, expr.expression)
      [] expr.tag = "Literal" -> z
      [] expr.tag = "Unary" -> ResolveExpr(z, expr.right)
      [] expr.tag = "Conditional" ->
            ResolveExpr(ResolveExpr(ResolveExpr(z, expr.condition), expr.if_true), expr.if_false)
      [] expr.tag = "Get" -> ResolveExpr(z, expr.object)
      [] expr.tag = "Set" -> ResolveExpr(ResolveExpr(z, expr.value), expr.object)
      [] expr.tag = "Super" -> Resolver_visit_super_expr(z, expr)
      [] expr.tag = "This" -> Resolver_visit_this_expr(z, expr)

\* Resolver(interpreter).resolve(statements)
resolve(locals, statements) == ResolveStmts(NewResolver(locals), statements, 1)

(***************************************************************************)
(* interpreter.py, environment.py.  An interpreter record st holds the     *)
(* Interpreter's fields (environment, globals, locals, is_repl) and the    *)
(* heap they point into: envs, the Environment objects (an environment is  *)
(* its index; enclosing 0 is None), and objs, the LoxFunction, LoxLambda,  *)
(* Clock, LoxClass and LoxInstance objects.  out collects what print()     *)
(* wrote to stdout.  A value of a callable or an instance is               *)
(* Value(<class>, <index in objs>, 0, <<>>).                               *)
(***************************************************************************)
NumValue(n) == Value("num", n, 0, <<>>)
UNASSIGNED == Value("Unassigned", 0, 0, <<>>)
ObjValue(class, id) == Value(class, id, 0, <<>>)

Environment(enclosing) == [values |-> EmptyDict, enclosing |-> enclosing]

GlobalsEnv == 1
ClockObj == 1

\* Interpreter.__init__: globals defines the native clock
NewInterpreter ==
    [envs |-> <<[values |-> DictSet(EmptyDict, <<"c", "l", "o", "c", "k">>,
                                    ObjValue("Clock", ClockObj)),
                 enclosing |-> 0]>>,
     objs |-> <<[class |-> "Clock"]>>,
     environment |-> GlobalsEnv,
     locals |-> EmptyDict,
     is_repl |-> FALSE,
     out |-> <<>>,
     steps |-> 0,
     time |-> 0]

\* what evaluating or executing yields: the interpreter after it, and how it ended:
\* "ok" with a value, or an exception raised ("LoxRuntimeError" with token and
\* message, "ReturnError" with a value, "BreakWhileError", or "PythonError": any
\* other exception of the Python runtime, named in message).  A message that
\* formats a name formats token.lexeme; one that formats numbers formats counts.
Done(st, value) ==
    [st |-> st, sig |-> "ok", value |-> value, token |-> None, message |-> "",
     counts |-> <<>>]
LoxRuntimeError(st, token, message) ==
    [st |-> st, sig |-> "LoxRuntimeError", value |-> NoneLiteral, token |-> token,
     message |-> message, counts |-> <<>>]
PythonError(st, message) ==
    [st |-> st, sig |-> "PythonError", value |-> NoneLiteral, token |-> None,
     message |-> message, counts |-> <<>>]
\* raise error.ReturnError(value)
ReturnError(st, value) == [Done(st, value) EXCEPT !.sig = "ReturnError"]
\* raise error.BreakWhileError()
BreakWhileError(st) == [Done(st, NoneLiteral) EXCEPT !.sig = "BreakWhileError"]
\* the model's bound on loop iterations and calls is used up
OutOfSteps(st) == [Done(st, NoneLiteral) EXCEPT !.sig = "OutOfSteps"]

\* Environment(enclosing) allocated: [st, env]
NewEnv(st, enclosing) ==
    [st |-> [st EXCEPT !.envs = Append(@, Environment(enclosing))], env |-> Len(st.envs) + 1]

NewObj(st, obj) == [st |-> [st EXCEPT !.objs = Append(@, obj)], id |-> Len(st.objs) + 1]

\* Environment.define
Env_define(st, env, name, value) == [st EXCEPT !.envs[env].values = DictSet(@, name, value)]

\* Environment.ancestor: the environment distance links up, 0 when a link is
\* missing (the code raises RuntimeError "Corrupted interpreter state")
RECURSIVE ancestor(_, _, _)
ancestor(st, env, distance) ==
    IF distance <= 0 THEN env
    ELSE IF st.envs[env].enclosing = 0 THEN 0
    ELSE ancestor(st, st.envs[env].enclosing, distance - 1)

Corrupted(st) ==
    PythonError(st, "RuntimeError: Corrupted interpreter state, enclosing environemnt was not found")

\* Environment.get_at: dict.get yields None for a missing name
get_at(st, env, distance, name) ==
    LET a == ancestor(st, env, distance)
    IN  IF a = 0 THEN Corrupted(st)
        ELSE Done(st, IF Has(st.envs[a].values, name) THEN st.envs[a].values[name]
                      ELSE NoneLiteral)

\* Environment.assign_at
assign_at(st, env, distance, name, value) ==
    LET a == ancestor(st, env, distance)
    IN  IF a = 0 THEN Corrupted(st)
        ELSE Done(Env_define(st, a, name.lexeme, value), value)

\* the environment of the chain from env that holds the name, 0 if none
RECURSIVE EnvHolding(_, _, _)
EnvHolding(st, env, lexeme) ==
    IF Has(st.envs[env].values, lexeme) THEN env
    ELSE IF st.envs[env].enclosing # 0 THEN EnvHolding(st, st.envs[env].enclosing, lexeme)
    ELSE 0

UndefinedVariable == "Undefined variable '{name.lexeme}'."

\* Environment.get
Env_get(st, env, name) ==
    LET h == EnvHolding(st, env, name.lexeme)
    IN  IF h # 0 THEN Done(st, st.envs[h].values[name.lexeme])
        ELSE LoxRuntimeError(st, name, UndefinedVariable)

\* Environment.assign
Env_assign(st, env, name, value) ==
    LET h == EnvHolding(st, env, name.lexeme)
    IN  IF h # 0 THEN Done(Env_define(st, h, name.lexeme, value), value)
        ELSE LoxRuntimeError(st, name, UndefinedVariable)

\* Interpreter.look_up_variable
look_up_variable(st, name, expr) ==
    IF Has(st.locals, expr.id)
    THEN get_at(st, st.environment, st.locals[expr.id], name.lexeme)
    ELSE Env_get(st, GlobalsEnv, name)

is_truthy(value) ==
    IF value.t = "nil" THEN FALSE
    ELSE IF value.t = "bool" THEN value.n = 1
    ELSE TRUE

RECURSIVE Pow10(_)
Pow10(k) == IF k = 0 THEN 1 ELSE 10 * Pow10(k - 1)

\* the numerators of two decimals over their common denominator
Aligned(a, b) ==
    LET e == IF a.e > b.e THEN a.e ELSE b.e
    IN  [a |-> a.n * Pow10(e - a.e), b |-> b.n * Pow10(e - b.e), e |-> e]

\* Python's a == b on two values: None equals only None; bool is a subclass of int,
\* so True == 1.0 and False == 0.0; str by value; every other object by identity
is_equal(a, b) ==
    IF a.t \in {"num", "bool"} /\ b.t \in {"num", "bool"}
    THEN LET x == Aligned(a, b) IN x.a = x.b
    ELSE a = b

IsFloat(value) == value.t = "num"

\* float arithmetic on decimals; s = <<"-">> marks the float -0.0
IsNegative(v) == v.n < 0 \/ v.s # <<>>
Zero(negative) == Value("num", 0, 0, IF negative THEN <<"-">> ELSE <<>>)
NumNeg(v) == IF v.n = 0 THEN Zero(~IsNegative(v)) ELSE Value("num", 0 - v.n, v.e, <<>>)
NumAdd(a, b) ==
    LET x == Aligned(a, b)
    IN  IF x.a + x.b = 0 THEN Zero(a.n = 0 /\ b.n = 0 /\ IsNegative(a) /\ IsNegative(b))
        ELSE NormDecimal(x.a + x.b, x.e)
NumSub(a, b) == NumAdd(a, NumNeg(b))
NumMul(a, b) ==
    IF a.n * b.n = 0 THEN Zero(IsNegative(a) # IsNegative(b))
    ELSE NormDecimal(a.n * b.n, a.e + b.e)
Abs(n) == IF n < 0 THEN 0 - n ELSE n
\* a / b for b # 0: exact when the quotient has at most FractionDigits fraction
\* digits, cut there otherwise (Python rounds to 53 bits)
NumDiv(a, b) ==
    LET q == (Abs(a.n) * Pow10(b.e + FractionDigits)) \div (Abs(b.n) * Pow10(a.e))
        negative == IsNegative(a) # IsNegative(b)
    IN  IF q = 0 THEN Zero(negative)
        ELSE NormDecimal(IF negative THEN 0 - q ELSE q, FractionDigits)
NumLess(a, b) == LET x == Aligned(a, b) IN x.a < x.b
IsCallable(value) == value.t \in {"LoxFunction", "LoxLambda", "Clock", "LoxClass"}

\* str() of a non-negative integer, as characters
DigitChar(d) ==
    CASE d = 0 -> "0" [] d = 1 -> "1" [] d = 2 -> "2" [] d = 3 -> "3" [] d = 4 -> "4"
      [] d = 5 -> "5" [] d = 6 -> "6" [] d = 7 -> "7" [] d = 8 -> "8" [] d = 9 -> "9"

RECURSIVE NatChars(_)
NatChars(n) == IF n < 10 THEN <<DigitChar(n)>> ELSE Append(NatChars(n \div 10), DigitChar(n % 10))

\* the k low decimal digits of n, zero-padded
RECURSIVE FracChars(_, _)
FracChars(n, k) == IF k = 0 THEN <<>> ELSE Append(FracChars(n \div 10, k - 1), DigitChar(n % 10))

\* str(float) with a trailing ".0" removed
FloatChars(v) ==
    LET m == IF v.n < 0 THEN 0 - v.n ELSE v.n
        sign == IF IsNegative(v) THEN <<"-">> ELSE <<>>
    IN  IF v.e = 0 THEN sign \o NatChars(m)
        ELSE sign \o NatChars(m \div Pow10(v.e)) \o <<".">> \o FracChars(m % Pow10(v.e), v.e)

\* a stringify that shows an instance in angle brackets, as it shows a function
stringify_bracketing_instances(st, value) ==
    CASE value.t = "nil" -> <<"n", "i", "l">>
      [] value.t = "num" -> FloatChars(value)
      [] value.t = "bool" -> IF value.n = 1 THEN <<"t", "r", "u", "e">>
                             ELSE <<"f", "a", "l", "s", "e">>
      [] value.t = "str" -> value.s
      [] value.t = "LoxFunction" ->
            <<"<", "f", "n", " ">> \o st.objs[value.n].declaration.name.lexeme \o <<">">>
      [] value.t = "LoxLambda" -> <<"<", "a", "n", "o", "n", "y", "m", "o", "u", "s", " ", "f", "n", ">">>
      [] value.t = "Clock" -> <<"<", "n", "a", "t", "i", "v", "e", " ", "f", "n", ">">>
      [] value.t = "LoxClass" -> st.objs[value.n].name
      [] value.t = "LoxInstance" ->
            <<"<">> \o st.objs[st.objs[value.n].klass].name
               \o <<" ", "i", "n", "s", "t", "a", "n", "c", "e", ">">>
      [] value.t = "Unassigned" ->
            <<"<", "p", "y", "l", "o", "x", ".", "i", "n", "t", "e", "r", "p", "r", "e", "t",
              "e", "r", ".", "U", "n", "a", "s", "s", "i", "g", "n", "e", "d", " ", "o", "b",
              "j", "e", "c", "t", " ", "a", "t", " ", "0", "x", ">">>

\* stringify(value); the heap gives the names of functions and classes
stringify(st, value) ==
    CASE value.t = "nil" -> <<"n", "i", "l">>
      [] value.t = "num" -> FloatChars(value)
      [] value.t = "bool" -> IF value.n = 1 THEN <<"t", "r", "u", "e">>
                             ELSE <<"f", "a", "l", "s", "e">>
      [] value.t = "str" -> value.s
      [] value.t = "LoxFunction" ->
            <<"<", "f", "n", " ">> \o st.objs[value.n].declaration.name.lexeme \o <<">">>
      [] value.t = "LoxLambda" -> <<"<", "a", "n", "o", "n", "y", "m", "o", "u", "s", " ", "f", "n", ">">>
      [] value.t = "Clock" -> <<"<", "n", "a", "t", "i", "v", "e", " ", "f", "n", ">">>
      [] value.t = "LoxClass" -> st.objs[value.n].name
      [] value.t = "LoxInstance" ->
            st.objs[st.objs[value.n].klass].name \o <<" ", "i", "n", "s", "t", "a", "n", "c", "e">>
      [] value.t = "Unassigned" ->
            <<"<", "p", "y", "l", "o", "x", ".", "i", "n", "t", "e", "r", "p", "r", "e", "t",
              "e", "r", ".", "U", "n", "a", "s", "s", "i", "g", "n", "e", "d", " ", "o", "b",
              "j", "e", "c", "t", " ", "a", "t", " ", "0", "x", ">">>

\* LoxClass.find_method: the LoxFunction object, 0 for None
RECURSIVE find_method(_, _, _)
find_method(st, class, name) ==
    IF Has(st.objs[class].methods, name) THEN st.objs[class].methods[name]
    ELSE IF st.objs[class].superclass # 0 THEN find_method(st, st.objs[class].superclass, name)
    ELSE 0

\* an arity that takes every class for one without init
arity_without_init(st, callee) ==
    CASE callee.t = "LoxFunction" -> Len(st.objs[callee.n].declaration.function.params)
      [] callee.t = "LoxLambda" -> Len(st.objs[callee.n].declaration.params)
      [] callee.t = "Clock" -> 0
      [] callee.t = "LoxClass" -> 0

\* the arity property of a callable
arity(st, callee) ==
    CASE callee.t = "LoxFunction" -> Len(st.objs[callee.n].declaration.function.params)
      [] callee.t = "LoxLambda" -> Len(st.objs[callee.n].declaration.params)
      [] callee.t = "Clock" -> 0
      [] callee.t = "LoxClass" ->
            LET initialiser == find_method(st, callee.n, INIT)
            IN  IF initialiser = 0 THEN 0
                ELSE Len(st.objs[initialiser].declaration.function.params)

\* a function object whose closure is the global environment, wherever it was
\* declared
LoxFunction_global(decl, closure, is_initializer) ==
    [class |-> "LoxFunction", declaration |-> decl, closure |-> GlobalsEnv,
     is_initializer |-> is_initializer]

LoxFunction(decl, closure, is_initializer) ==
    [class |-> "LoxFunction", declaration |-> decl, closure |-> closure,
     is_initializer |-> is_initializer]

\* LoxFunction.bind: [st, id], id the new LoxFunction
bind(st, fn, instance) ==
    LET e == NewEnv(st, st.objs[fn].closure)
        st1 == Env_define(e.st, e.env, THIS, instance)
    IN  NewObj(st1, LoxFunction(st.objs[fn].declaration, e.env, st.objs[fn].is_initializer))

\* visit_binary_expr after both operands are evaluated
BinaryOp(st, operator, left, right) ==
    LET both == IsFloat(left) /\ IsFloat(right)
        numbers(v) == IF both THEN Done(st, v)
                      ELSE LoxRuntimeError(st, operator, "Operands must be numbers.")
        type == operator.type
    IN  CASE type = "GREATER" -> numbers(BoolValue(both /\ NumLess(right, left)))
          [] type = "GREATER_EQUAL" -> numbers(BoolValue(both /\ ~NumLess(left, right)))
          [] type = "LESS" -> numbers(BoolValue(both /\ NumLess(left, right)))
          [] type = "LESS_EQUAL" -> numbers(BoolValue(both /\ ~NumLess(right, left)))
          [] type = "PLUS" ->
                IF both THEN Done(st, NumAdd(left, right))
                ELSE IF left.t = "str" \/ right.t = "str"
                THEN Done(st, StrValue(stringify(st, left) \o stringify(st, right)))
                ELSE LoxRuntimeError(st, operator,
                                     "Operands must be two numbers or two strings.")
          [] type = "MINUS" -> numbers(IF both THEN NumSub(left, right) ELSE NoneLiteral)
          [] type = "SLASH" ->
                IF both /\ right.n = 0
                THEN LoxRuntimeError(st, operator, "Cannot divide by zero.")
                ELSE numbers(IF both THEN NumDiv(left, right) ELSE NoneLiteral)
          [] type = "STAR" -> numbers(IF both THEN NumMul(left, right) ELSE NoneLiteral)
          [] type = "BANG_EQUAL" -> Done(st, BoolValue(~is_equal(left, right)))
          [] type = "EQUAL_EQUAL" -> Done(st, BoolValue(is_equal(left, right)))
          [] type = "COMMA" -> Done(st, right)

\* a lookup that tries the methods before the fields
LoxInstance_get_method_first(st, obj, name) ==
    LET method == find_method(st, st.objs[obj.n].klass, name.lexeme)
    IN  IF method # 0
        THEN LET b == bind(st, method, obj) IN Done(b.st, ObjValue("LoxFunction", b.id))
        ELSE IF Has(st.objs[obj.n].fields, name.lexeme)
        THEN Done(st, st.objs[obj.n].fields[name.lexeme])
        ELSE LoxRuntimeError(st, name, "Undefined property {name.lexeme}.")

\* LoxInstance.get
LoxInstance_get(st, obj, name) ==
    IF Has(st.objs[obj.n].fields, name.lexeme)
    THEN Done(st, st.objs[obj.n].fields[name.lexeme])
    ELSE LET method == find_method(st, st.objs[obj.n].klass, name.lexeme)
         IN  IF method # 0
             THEN LET b == bind(st, method, obj) IN Done(b.st, ObjValue("LoxFunction", b.id))
             ELSE LoxRuntimeError(st, name, "Undefined property {name.lexeme}.")

\* print(text): one line on stdout
PrintLine(st, text) == [st EXCEPT !.out = Append(@, text)]

\* environment.define(param.lexeme, arg) for param, arg in zip(params, arguments)
RECURSIVE DefineParams(_, _, _, _, _)
DefineParams(st, env, params, arguments, i) ==
    IF i > Len(params) \/ i > Len(arguments) THEN st
    ELSE DefineParams(Env_define(st, env, params[i].lexeme, arguments[i]), env, params,
                      arguments, i + 1)

\* the methods dict of visit_class_stmt: [st, methods]
RECURSIVE MakeMethods(_, _, _, _)
MakeMethods(st, methods, i, dict) ==
    IF i > Len(methods) THEN [st |-> st, methods |-> dict]
    ELSE LET f == NewObj(st, LoxFunction(methods[i], st.environment,
                                         methods[i].name.lexeme = INIT))
         IN  MakeMethods(f.st, methods, i + 1, DictSet(dict, methods[i].name.lexeme, f.id))

RECURSIVE accept(_, _), Callable_call(_, _, _)

StmtClasses ==
    {"Expression", "Print", "Var", "Block", "Class", "If", "While", "Break", "Function",
     "Return", "InvalidDeclatation"}

\* Interpreter.evaluate
evaluate(st, expr) == accept(st, expr)

\* Interpreter.execute
execute(st, stmt) == accept(st, stmt)

\* [self.evaluate(arg) for arg in expr.arguments]: value is the list
RECURSIVE EvalArguments(_, _, _, _)
EvalArguments(st, arguments, i, values) ==
    IF i > Len(arguments) THEN Done(st, values)
    ELSE LET r == evaluate(st, arguments[i])
         IN  IF r.sig # "ok" THEN r
             ELSE EvalArguments(r.st, arguments, i + 1, Append(values, r.value))

\* for stmt in statements: self.execute(stmt)
RECURSIVE ExecStmts(_, _, _)
ExecStmts(st, statements, i) ==
    IF i > Len(statements) THEN Done(st, NoneLiteral)
    ELSE LET r == execute(st, statements[i])
         IN  IF r.sig # "ok" THEN r ELSE ExecStmts(r.st, statements, i + 1)

\* an execute_block without "finally": the environment is restored only when
\* the statements end normally
execute_block_without_finally(st, statements, env) ==
    LET r == ExecStmts([st EXCEPT !.environment = env], statements, 1)
    IN  IF r.sig = "ok" THEN [r EXCEPT !.st.environment = st.environment] ELSE r

\* Interpreter.execute_block: finally restores the environment
execute_block(st, statements, env) ==
    LET r == ExecStmts([st EXCEPT !.environment = env], statements, 1)
    IN  [r EXCEPT !.st.environment = st.environment]

\* Interpreter.visit_while_stmt
RECURSIVE WhileLoop(_, _)
WhileLoop(st, stmt) ==
    LET condition == evaluate(st, stmt.condition)
        body == execute([condition.st EXCEPT !.steps = @ + 1], stmt.body)
    IN  IF condition.sig # "ok" THEN condition
        ELSE IF ~is_truthy(condition.value) THEN Done(condition.st, NoneLiteral)
        ELSE IF condition.st.steps >= MaxSteps THEN OutOfSteps(condition.st)
        ELSE IF body.sig = "BreakWhileError" THEN Done(body.st, NoneLiteral)
        ELSE IF body.sig # "ok" THEN body
        ELSE WhileLoop(body.st, stmt)

\* Interpreter.visit_super_expr is declared by ExprVisitor and called by
\* Super.accept, but Interpreter does not define it.  After the specification: the
\* side table's distance leads to the environment binding super, the one below it
\* binds this, and the superclass's method is bound to that instance.
visit_super_expr(st, expr) ==
    IF ~Has(st.locals, expr.id) THEN PythonError(st, "TypeError")
    ELSE LET distance == st.locals[expr.id]
             superclass == get_at(st, st.environment, distance, SUPER)
             object == get_at(st, st.environment, distance - 1, THIS)
         IN  IF superclass.sig # "ok" THEN superclass
             ELSE IF object.sig # "ok" THEN object
             ELSE IF superclass.value.t # "LoxClass" THEN PythonError(st, "AttributeError")
             ELSE LET method == find_method(st, superclass.value.n, expr.method.lexeme)
                  IN  IF method = 0
                      THEN LoxRuntimeError(st, expr.method, "Undefined property {name.lexeme}.")
                      ELSE LET b == bind(st, method, object.value)
                           IN  Done(b.st, ObjValue("LoxFunction", b.id))

\* a call whose initializer returns like any other function: the value of its
\* return statement, nil without one
FunctionCall_plain(st, params, body, closure, is_initializer, arguments) ==
    LET e == NewEnv(st, closure)
        r == execute_block(DefineParams(e.st, e.env, params, arguments, 1), body, e.env)
    IN  IF r.sig \notin {"ok", "ReturnError"} THEN r
        ELSE Done(r.st, IF r.sig = "ReturnError" THEN r.value ELSE NoneLiteral)

\* LoxFunction.call and LoxLambda.call: the body runs in a new environment on
\* the closure; ReturnError ends the call with its value
FunctionCall(st, params, body, closure, is_initializer, arguments) ==
    LET e == NewEnv(st, closure)
        r == execute_block(DefineParams(e.st, e.env, params, arguments, 1), body, e.env)
    IN  IF r.sig \notin {"ok", "ReturnError"} THEN r
        ELSE IF is_initializer THEN get_at(r.st, closure, 0, THIS)
        ELSE Done(r.st, IF r.sig = "ReturnError" THEN r.value ELSE NoneLiteral)

\* LoxClass.call
LoxClass_call(st, class, arguments) ==
    LET i == NewObj(st, [class |-> "LoxInstance", klass |-> class, fields |-> EmptyDict])
        instance == ObjValue("LoxInstance", i.id)
        initializer == find_method(st, class, INIT)
        b == bind(i.st, initializer, instance)
        r == Callable_call(b.st, ObjValue("LoxFunction", b.id), arguments)
    IN  IF initializer = 0 THEN Done(i.st, instance)
        ELSE IF r.sig # "ok" THEN r
        ELSE Done(r.st, instance)

\* callee.call(self, arguments); Clock.call returns time.time(), the time field
Callable_call(st, callee, arguments) ==
    CASE callee.t = "LoxFunction" ->
            LET f == st.objs[callee.n]
            IN  FunctionCall(st, f.declaration.function.params, f.declaration.function.body,
                             f.closure, f.is_initializer, arguments)
      [] callee.t = "LoxLambda" ->
            LET f == st.objs[callee.n]
            IN  FunctionCall(st, f.declaration.params, f.declaration.body, f.closure, FALSE,
                             arguments)
      [] callee.t = "Clock" -> Done(st, NumValue(st.time))
      [] callee.t = "LoxClass" -> LoxClass_call(st, callee.n, arguments)

\* a visit_call_expr that checks the callee before it evaluates the arguments
visit_call_expr_checking_first(st, expr) ==
    LET callee == evaluate(st, expr.callee)
        arguments == EvalArguments(callee.st, expr.arguments, 1, <<>>)
        st2 == arguments.st
        n == IF IsCallable(callee.value) THEN arity(st2, callee.value) ELSE 0
    IN  IF callee.sig # "ok" THEN callee
        ELSE IF ~IsCallable(callee.value)
        THEN LoxRuntimeError(callee.st, expr.paren, "Can only call functions and classes.")
        ELSE IF arguments.sig # "ok" THEN arguments
        ELSE IF Len(arguments.value) # n
        THEN [LoxRuntimeError(st2, expr.paren, "Expected {callee.arity} but got {len(arguments)}.")
                EXCEPT !.counts = <<n, Len(arguments.value)>>]
        ELSE IF st2.steps >= MaxSteps THEN OutOfSteps(st2)
        ELSE Callable_call([st2 EXCEPT !.steps = @ + 1], callee.value, arguments.value)

\* Interpreter.visit_call_expr
visit_call_expr(st, expr) ==
    LET callee == evaluate(st, expr.callee)
        arguments == EvalArguments(callee.st, expr.arguments, 1, <<>>)
        st2 == arguments.st
        n == IF IsCallable(callee.value) THEN arity(st2, callee.value) ELSE 0
    IN  IF callee.sig # "ok" THEN callee
        ELSE IF arguments.sig # "ok" THEN arguments
        ELSE IF ~IsCallable(callee.value)
        THEN LoxRuntimeError(st2, expr.paren, "Can only call functions and classes.")
        ELSE IF Len(arguments.value) # n
        THEN [LoxRuntimeError(st2, expr.paren, "Expected {callee.arity} but got {len(arguments)}.")
                EXCEPT !.counts = <<n, Len(arguments.value)>>]
        ELSE IF st2.steps >= MaxSteps THEN OutOfSteps(st2)
        ELSE Callable_call([st2 EXCEPT !.steps = @ + 1], callee.value, arguments.value)

\* Interpreter.visit_assign_expr
visit_assign_expr(st, expr) ==
    LET value == evaluate(st, expr.value)
    IN  IF value.sig # "ok" THEN value
        ELSE IF Has(value.st.locals, expr.id)
        THEN assign_at(value.st, value.st.environment, value.st.locals[expr.id], expr.name,
                       value.value)
        ELSE Env_assign(value.st, GlobalsEnv, expr.name, value.value)

\* Interpreter.visit_set_expr
visit_set_expr(st, expr) ==
    LET obj == evaluate(st, expr.object)
        value == evaluate(obj.st, expr.value)
    IN  IF obj.sig # "ok" THEN obj
        ELSE IF obj.value.t # "LoxInstance"
        THEN LoxRuntimeError(obj.st, expr.name, "Only instances have fields.")
        ELSE IF value.sig # "ok" THEN value
        ELSE Done([value.st EXCEPT !.objs[obj.value.n].fields =
                                       DictSet(@, expr.name.lexeme, value.value)],
                  value.value)

\* Interpreter.visit_class_stmt
visit_class_stmt(st, stmt) ==
    LET superclass == IF stmt.superclass = None THEN Done(st, NoneLiteral)
                      ELSE evaluate(st, stmt.superclass)
        st1 == Env_define(superclass.st, st.environment, stmt.name.lexeme, NoneLiteral)
        m == MakeMethods(st1, stmt.methods, 1, EmptyDict)
        lox_class == NewObj(m.st, [class |-> "LoxClass", name |-> stmt.name.lexeme,
                                   superclass |-> IF stmt.superclass = None THEN 0
                                                  ELSE superclass.value.n,
                                   methods |-> m.methods])
    IN  IF superclass.sig # "ok" THEN superclass
        ELSE IF stmt.superclass # None /\ superclass.value.t # "LoxClass"
        THEN LoxRuntimeError(superclass.st, stmt.superclass.name, "Superclass must be a class.")
        ELSE Env_assign(lox_class.st, st.environment, stmt.name,
                        ObjValue("LoxClass", lox_class.id))

\* Expr.accept and Stmt.accept: node.accept(self) calls the visit method of the
\* node's class
accept(st, node) ==
    IF node.tag \in StmtClasses
    THEN LET stmt == node
         IN
            CASE stmt.tag = "Expression" ->
                    LET value == evaluate(st, stmt.expression)
                    IN  IF value.sig # "ok" THEN value
                        ELSE IF value.st.is_repl
                        THEN Done(PrintLine(value.st, stringify(value.st, value.value)), NoneLiteral)
                        ELSE Done(value.st, NoneLiteral)
              [] stmt.tag = "Print" ->
                    LET value == evaluate(st, stmt.expression)
                    IN  IF value.sig # "ok" THEN value
                        ELSE Done(PrintLine(value.st, stringify(value.st, value.value)), NoneLiteral)
              [] stmt.tag = "Var" ->
                    LET value == IF stmt.initializer = None THEN Done(st, UNASSIGNED)
                                 ELSE evaluate(st, stmt.initializer)
                    IN  IF value.sig # "ok" THEN value
                        ELSE Done(Env_define(value.st, value.st.environment, stmt.name.lexeme,
                                             value.value), NoneLiteral)
              [] stmt.tag = "Block" ->
                    LET e == NewEnv(st, st.environment)
                    IN  execute_block(e.st, stmt.statements, e.env)
              [] stmt.tag = "Class" -> visit_class_stmt(st, stmt)
              [] stmt.tag = "If" ->
                    LET condition == evaluate(st, stmt.condition)
                    IN  IF condition.sig # "ok" THEN condition
                        ELSE IF is_truthy(condition.value) THEN execute(condition.st, stmt.then_branch)
                        ELSE IF stmt.else_branch # None THEN execute(condition.st, stmt.else_branch)
                        ELSE Done(condition.st, NoneLiteral)
              [] stmt.tag = "While" -> WhileLoop(st, stmt)
              [] stmt.tag = "Break" -> BreakWhileError(st)
              [] stmt.tag = "Function" ->
                    LET func == NewObj(st, LoxFunction(stmt, st.environment, FALSE))
                    IN  Done(Env_define(func.st, st.environment, stmt.name.lexeme,
                                        ObjValue("LoxFunction", func.id)), NoneLiteral)
              [] stmt.tag = "Return" ->
                    LET value == IF stmt.value = None THEN Done(st, NoneLiteral)
                                 ELSE evaluate(st, stmt.value)
                    IN  IF value.sig # "ok" THEN value ELSE ReturnError(value.st, value.value)
              [] stmt.tag = "InvalidDeclatation" ->
                    PythonError(st, "RuntimeError: cannot visit invalid declaration statement")
    ELSE LET expr == node
         IN
            CASE expr.tag = "Literal" -> Done(st, expr.value)
              [] expr.tag = "Grouping" -> evaluate(st, expr.expression)
              [] expr.tag = "Unary" ->
                    LET right == evaluate(st, expr.right)
                    IN  IF right.sig # "ok" THEN right
                        ELSE IF expr.operator.type = "MINUS"
                        THEN IF IsFloat(right.value) THEN Done(right.st, NumNeg(right.value))
                             ELSE LoxRuntimeError(right.st, expr.operator, "Operand must be a number.")
                        ELSE Done(right.st, BoolValue(~is_truthy(right.value)))
              [] expr.tag = "Binary" ->
                    LET left == evaluate(st, expr.left)
                        right == evaluate(left.st, expr.right)
                    IN  IF left.sig # "ok" THEN left
                        ELSE IF right.sig # "ok" THEN right
                        ELSE BinaryOp(right.st, expr.operator, left.value, right.value)
              [] expr.tag = "Conditional" ->
                    LET condition == evaluate(st, expr.condition)
                    IN  IF condition.sig # "ok" THEN condition
                        ELSE IF is_truthy(condition.value) THEN evaluate(condition.st, expr.if_true)
                        ELSE evaluate(condition.st, expr.if_false)
              [] expr.tag = "Variable" -> look_up_variable(st, expr.name, expr)
              [] expr.tag = "Assign" -> visit_assign_expr(st, expr)
              [] expr.tag = "Logical" ->
                    LET left == evaluate(st, expr.left)
                    IN  IF left.sig # "ok" THEN left
                        ELSE IF (expr.operator.type = "OR") = is_truthy(left.value) THEN left
                        ELSE evaluate(left.st, expr.right)
              [] expr.tag = "Call" -> visit_call_expr(st, expr)
              [] expr.tag = "Get" ->
                    LET obj == evaluate(st, expr.object)
                    IN  IF obj.sig # "ok" THEN obj
                        ELSE IF obj.value.t = "LoxInstance"
                        THEN LoxInstance_get(obj.st, obj.value, expr.name)
                        ELSE LoxRuntimeError(obj.st, expr.name, "Only instances have properties.")
              [] expr.tag = "Set" -> visit_set_expr(st, expr)
              [] expr.tag = "This" -> look_up_variable(st, expr.keyword, expr)
              [] expr.tag = "Super" -> visit_super_expr(st, expr)
              [] expr.tag = "Lambda" ->
                    LET f == NewObj(st, [class |-> "LoxLambda", declaration |-> expr,
                                         closure |-> st.environment])
                    IN  Done(f.st, ObjValue("LoxLambda", f.id))

(***************************************************************************)
(* The inputs of the driver: the files run_file is started on and the      *)
(* lines typed at the prompt of run_prompt.                                *)
(***************************************************************************)
\* the empty source
EmptyProgram ==
    <<>>

\* 1+1;
ExprProgram ==
    <<"1", "+", "1", ";">>

\* print 1;
PrintProgram ==
    <<"p", "r", "i", "n", "t", " ", "1", ";">>

\* print 1; -"s"; print 2;
RuntimeErrorProgram ==
    <<"p", "r", "i", "n", "t", " ", "1", ";", " ", "-", "\"", "s", "\"", ";", " ", "p",
      "r", "i", "n", "t", " ", "2", ";">>

\* @ print 1;: an unexpected character, then a statement that parses
ScanErrorProgram ==
    <<"@", " ", "p", "r", "i", "n", "t", " ", "1", ";">>

\* @ print;: an unexpected character and a print without operand
ScanParseErrorProgram ==
    <<"@", " ", "p", "r", "i", "n", "t", ";">>

\* print 1; print ;
ParseErrorProgram ==
    <<"p", "r", "i", "n", "t", " ", "1", ";", " ", "p", "r", "i", "n", "t", " ", ";">>

\* print 1; return;
ResolveErrorProgram ==
    <<"p", "r", "i", "n", "t", " ", "1", ";", " ", "r", "e", "t", "u", "r", "n", ";">>

\* var f=nil;while(!f)f=fun(){break;};f();: a break run outside the loop it was written in
EscapeProgram ==
    <<"v", "a", "r", " ", "f", "=", "n", "i", "l", ";", "w", "h", "i", "l", "e", "(",
      "!", "f", ")", "f", "=", "f", "u", "n", "(", ")", "{", "b", "r", "e", "a", "k",
      ";", "}", ";", "f", "(", ")", ";">>

\* {var a=1;{var a=2;print a;}}
ShadowProgram ==
    <<"{", "v", "a", "r", " ", "a", "=", "1", ";", "{", "v", "a", "r", " ", "a", "=",
      "2", ";", "p", "r", "i", "n", "t", " ", "a", ";", "}", "}">>

\* class A{greet(){print "A";}}class B<A{greet(){super.greet();print "B";}}B().greet();:
\* the inheritance example of the specification
SuperProgram ==
    <<"c", "l", "a", "s", "s", " ", "A", "{", "g", "r", "e", "e", "t", "(", ")", "{",
      "p", "r", "i", "n", "t", " ", "\"", "A", "\"", ";", "}", "}", "c", "l", "a", "s",
      "s", " ", "B", "<", "A", "{", "g", "r", "e", "e", "t", "(", ")", "{", "s", "u",
      "p", "e", "r", ".", "g", "r", "e", "e", "t", "(", ")", ";", "p", "r", "i", "n",
      "t", " ", "\"", "B", "\"", ";", "}", "}", "B", "(", ")", ".", "g", "r", "e", "e",
      "t", "(", ")", ";">>

\* var x;var n=nil;print n;print x;: x is declared without an initializer, n is bound to
\* nil
UnassignedProgram ==
    <<"v", "a", "r", " ", "x", ";", "v", "a", "r", " ", "n", "=", "n", "i", "l", ";", "p",
      "r", "i", "n", "t", " ", "n", ";", "p", "r", "i", "n", "t", " ", "x", ";">>

\* fun f(a){print a;}class P{init(a){print a;}}var n=1;var p=P(2);: a function and a
\* class of arity 1, a number and an instance
CallProgram ==
    <<"f", "u", "n", " ", "f", "(", "a", ")", "{", "p", "r", "i", "n", "t", " ", "a", ";",
      "}", "c", "l", "a", "s", "s", " ", "P", "{", "i", "n", "i", "t", "(", "a", ")", "{",
      "p", "r", "i", "n", "t", " ", "a", ";", "}", "}", "v", "a", "r", " ", "n", "=", "1",
      ";", "v", "a", "r", " ", "p", "=", "P", "(", "2", ")", ";">>

\* class A{}class B{init(){this.x=1;}}var a=A();var b=B();print b.init()==b;: a class
\* without init and one whose init falls off its end
ClassProgram ==
    <<"c", "l", "a", "s", "s", " ", "A", "{", "}", "c", "l", "a", "s", "s", " ", "B", "{",
      "i", "n", "i", "t", "(", ")", "{", "t", "h", "i", "s", ".", "x", "=", "1", ";", "}",
      "}", "v", "a", "r", " ", "a", "=", "A", "(", ")", ";", "v", "a", "r", " ", "b", "=",
      "B", "(", ")", ";", "p", "r", "i", "n", "t", " ", "b", ".", "i", "n", "i", "t", "(",
      ")", "=", "=", "b", ";">>

\* class C{init(a){if(a)return;this.x=a;}}var c=C(true);print c.init(false)==c;: an init
\* that executes a bare return or falls off its end
ReturnProgram ==
    <<"c", "l", "a", "s", "s", " ", "C", "{", "i", "n", "i", "t", "(", "a", ")", "{", "i",
      "f", "(", "a", ")", "r", "e", "t", "u", "r", "n", ";", "t", "h", "i", "s", ".", "x",
      "=", "a", ";", "}", "}", "v", "a", "r", " ", "c", "=", "C", "(", "t", "r", "u", "e",
      ")", ";", "p", "r", "i", "n", "t", " ", "c", ".", "i", "n", "i", "t", "(", "f", "a",
      "l", "s", "e", ")", "=", "=", "c", ";">>

\* class A{f(){1;}g(){}}class B<A{f(){2;}}var b=B();b.g=4;: B overrides f and inherits
\* g, the field g of b shadows the method g
PropertyProgram ==
    <<"c", "l", "a", "s", "s", " ", "A", "{", "f", "(", ")", "{", "1", ";", "}", "g", "(",
      ")", "{", "}", "}", "c", "l", "a", "s", "s", " ", "B", "<", "A", "{", "f", "(", ")",
      "{", "2", ";", "}", "}", "v", "a", "r", " ", "b", "=", "B", "(", ")", ";", "b", ".",
      "g", "=", "4", ";">>

\* var c;fun m(){var i=0;fun n(){i=i+1;print i;}c=n;}m();c();c();m();c();: two counters
\* made by two calls of m
CounterProgram ==
    <<"v", "a", "r", " ", "c", ";", "f", "u", "n", " ", "m", "(", ")", "{", "v", "a", "r",
      " ", "i", "=", "0", ";", "f", "u", "n", " ", "n", "(", ")", "{", "i", "=", "i", "+",
      "1", ";", "p", "r", "i", "n", "t", " ", "i", ";", "}", "c", "=", "n", ";", "}", "m",
      "(", ")", ";", "c", "(", ")", ";", "c", "(", ")", ";", "m", "(", ")", ";", "c", "(",
      ")", ";">>

\* {var a=1;-"s";}print 2;: a runtime error inside a block
BlockErrorProgram ==
    <<"{", "v", "a", "r", " ", "a", "=", "1", ";", "-", "\"", "s", "\"", ";", "}", "p",
      "r", "i", "n", "t", " ", "2", ";">>

\* while(true){{break;}}: two nested blocks left by a break
BreakProgram ==
    <<"w", "h", "i", "l", "e", "(", "t", "r", "u", "e", ")", "{", "{", "b", "r", "e", "a",
      "k", ";", "}", "}">>

\* fun f(){{return;}}f();: a block inside a function body left by a return
BlockReturnProgram ==
    <<"f", "u", "n", " ", "f", "(", ")", "{", "{", "r", "e", "t", "u", "r", "n", ";", "}",
      "}", "f", "(", ")", ";">>

\* 1=2;print 3;: an assignment to a literal, then a statement
AssignTargetProgram ==
    <<"1", "=", "2", ";", "p", "r", "i", "n", "t", " ", "3", ";">>

\* (a)=2;print 3;: an assignment to a parenthesised variable
GroupTargetProgram ==
    <<"(", "a", ")", "=", "2", ";", "p", "r", "i", "n", "t", " ", "3", ";">>

\* var a=1;fun f(x,y){print a;}f((a=2),(a=a*3));a((a=a+1));: arguments with side
\* effects, to a function and to a number
ArgumentsProgram ==
    <<"v", "a", "r", " ", "a", "=", "1", ";", "f", "u", "n", " ", "f", "(", "x", ",", "y",
      ")", "{", "p", "r", "i", "n", "t", " ", "a", ";", "}", "f", "(", "(", "a", "=", "2",
      ")", ",", "(", "a", "=", "a", "*", "3", ")", ")", ";", "a", "(", "(", "a", "=", "a",
      "+", "1", ")", ")", ";">>

\* class C{}fun f(){}var l=fun(){};var i=C();print i;print f;print l;print clock;: the
\* display names of an instance, a function, a lambda and the native clock
DisplayProgram ==
    <<"c", "l", "a", "s", "s", " ", "C", "{", "}", "f", "u", "n", " ", "f", "(", ")", "{",
      "}", "v", "a", "r", " ", "l", "=", "f", "u", "n", "(", ")", "{", "}", ";", "v", "a",
      "r", " ", "i", "=", "C", "(", ")", ";", "p", "r", "i", "n", "t", " ", "i", ";", "p",
      "r", "i", "n", "t", " ", "f", ";", "p", "r", "i", "n", "t", " ", "l", ";", "p", "r",
      "i", "n", "t", " ", "c", "l", "o", "c", "k", ";">>

\* class A{}{var a=1;class B<A{m(){print a;}}{B().m();}}: a method of a subclass reads a
\* variable of the block that declares the class
DepthProgram ==
    <<"c", "l", "a", "s", "s", " ", "A", "{", "}", "{", "v", "a", "r", " ", "a", "=", "1",
      ";", "c", "l", "a", "s", "s", " ", "B", "<", "A", "{", "m", "(", ")", "{", "p", "r",
      "i", "n", "t", " ", "a", ";", "}", "}", "{", "B", "(", ")", ".", "m", "(", ")", ";",
      "}", "}">>

\* {class A{}A();}: a class declared in a block and used in that block
LocalClassProgram ==
    <<"{", "c", "l", "a", "s", "s", " ", "A", "{", "}", "A", "(", ")", ";", "}">>

\* var a=1;
VarLine ==
    <<"v", "a", "r", " ", "a", "=", "1", ";">>

\* print a;
PrintVarLine ==
    <<"p", "r", "i", "n", "t", " ", "a", ";">>

\* print ;
ParseErrorLine ==
    <<"p", "r", "i", "n", "t", " ", ";">>

\* -"s";
RuntimeErrorLine ==
    <<"-", "\"", "s", "\"", ";">>

\* 1+1;
ExprLine ==
    <<"1", "+", "1", ";">>

FilePrograms ==
    {EmptyProgram, ExprProgram, PrintProgram, RuntimeErrorProgram, ScanErrorProgram,
     ScanParseErrorProgram, ParseErrorProgram, ResolveErrorProgram, EscapeProgram,
     ShadowProgram, SuperProgram, UnassignedProgram, CallProgram, ClassProgram,
     ReturnProgram, PropertyProgram, CounterProgram, BlockErrorProgram, BreakProgram,
     BlockReturnProgram, AssignTargetProgram, GroupTargetProgram, ArgumentsProgram,
     DisplayProgram, DepthProgram, LocalClassProgram}

\* the empty line ends run_prompt
ReplLines == {<<>>, VarLine, PrintVarLine, ParseErrorLine, RuntimeErrorLine, ExprLine}

(***************************************************************************)
(* SpecScan: Scanner(source).scan_tokens() on every source over            *)
(* ScanAlphabet of at most MaxSrcLen characters, one loop iteration per    *)
(* step.                                                                   *)
(***************************************************************************)
ScanAlphabet == {"/", "*", "\"", "\n", "@", "1", "a", "="}

ScanInit ==
    /\ source \in SeqsUpTo(ScanAlphabet, MaxSrcLen)
    /\ pc = "scan"
    /\ scanner = NewScanner
    /\ had_error = FALSE
    /\ had_runtime_error = FALSE
    /\ stderr = <<>>
    /\ stdout = <<>>
    /\ mode = "scan"
    /\ file = <<>>
    /\ stdin = <<>>
    /\ parsed = <<>>
    /\ resolver = NewResolver(EmptyDict)
    /\ INTERPRETER = NewInterpreter
    /\ stmt_index = 0
    /\ exit_status = -1
    /\ ran = {"Scanner"}
    /\ reported = {}
    /\ next_id = 1
    /\ parser = NewParser(<<>>, 1)

\* one iteration of the loop of scan_tokens
ScanSingleToken ==
    /\ pc = "scan"
    /\ ~is_at_end(source, scanner)
    /\ LET r == scan_single_token(source, scanner)
       IN  /\ scanner' = r.sc
           /\ stderr' = stderr \o r.reports
           /\ had_error' = (had_error \/ r.reports # <<>>)
           /\ reported' = IF r.reports # <<>> THEN reported \cup {"Scanner"} ELSE reported
    /\ UNCHANGED <<pc, source, had_runtime_error, stdout, run_vars>>

\* the loop of scan_tokens ends: EOF is appended and the tokens are returned
ScanReturn ==
    /\ pc = "scan"
    /\ is_at_end(source, scanner)
    /\ scanner' = append_eof(scanner)
    /\ pc' = "scanned"
    /\ UNCHANGED <<source, had_error, had_runtime_error, stderr, stdout, run_vars,
                   reported>>

ScanNext == ScanSingleToken \/ ScanReturn

SpecScan == ScanInit /\ [][ScanNext]_vars

EofCount(tokens) == Cardinality({i \in 1..Len(tokens) : tokens[i].type = "EOF"})

\* C1: whatever the source, and whatever scan errors it produced, the token list
\* scan_tokens returns ends in an EOF token and holds no other EOF token (and no EOF
\* token is emitted before the scan ends).
C1_TokensEndInSingleEOF ==
    /\ pc = "scan" => EofCount(scanner.tokens) = 0
    /\ pc = "scanned" =>
          /\ scanner.tokens # <<>>
          /\ Last(scanner.tokens).type = "EOF"
          /\ EofCount(scanner.tokens) = 1

\* a finished scan of a source that has a token and then an unterminated string
C1_Witness ==
    /\ pc = "scanned"
    /\ had_error
    /\ Len(scanner.tokens) >= 2
    /\ \E i \in 1..Len(stderr) : stderr[i].message = "Unterminated string."

(***************************************************************************)
(* Spec: the driver.  main() calls run_file on a file or run_prompt on     *)
(* the lines of stdin; run(source) scans, parses, resolves and interprets. *)
(* The scan takes one step per token, the parser and the resolver one step *)
(* each, the interpreter one step per statement of the program.            *)
(***************************************************************************)
\* what a write to stdout is: the line of a print statement, the prompt of
\* input("> "), or the two lines error.runtime_error prints
StdoutLine(text) == [kind |-> "print", text |-> text, message |-> "", line |-> 0]
Prompt == [kind |-> "prompt", text |-> <<">", " ">>, message |-> "", line |-> 0]
RuntimeErrorLines(message, token) ==
    [kind |-> "runtime_error", text |-> token.lexeme, message |-> message,
     line |-> token.line]

\* the traceback Python writes to stderr when an exception ends the process
Traceback(exception) == Diag(0, "Traceback", <<>>, exception)

PrintedLines(out) == [i \in 1..Len(out) |-> StdoutLine(out[i])]

\* a runtime_error that prints and leaves had_runtime_error alone
runtime_error_unflagged(exc) ==
    [stdout |-> <<RuntimeErrorLines(exc.message, exc.token)>>, had_runtime_error |-> FALSE]

\* error.runtime_error(exc): what it prints, on stdout, and the flag it sets
runtime_error(exc) ==
    [stdout |-> <<RuntimeErrorLines(exc.message, exc.token)>>, had_runtime_error |-> TRUE]

\* a run() that goes on to the Resolver whatever the flag
NeverStop(flag) == FALSE

\* run(): "if HadError.had_error: return" after the parser
StopOnSyntaxError(flag) == flag

\* a run() that goes on to interpret() whatever the flag
ContinueAfterResolutionError(flag) == FALSE

\* run(): "if HadError.had_error: return" after the resolver
StopOnResolutionError(flag) == flag

Init ==
    /\ \/ mode = "file" /\ file \in FilePrograms /\ stdin = <<>>
       \/ mode = "repl" /\ file = <<>> /\ stdin \in SeqsUpTo(ReplLines, MaxLines)
    /\ pc = "main"
    /\ source = <<>>
    /\ scanner = NewScanner
    /\ had_error = FALSE
    /\ had_runtime_error = FALSE
    /\ stderr = <<>>
    /\ stdout = <<>>
    /\ parsed = <<>>
    /\ resolver = NewResolver(EmptyDict)
    /\ INTERPRETER = NewInterpreter
    /\ stmt_index = 0
    /\ exit_status = -1
    /\ ran = {}
    /\ reported = {}
    /\ next_id = 1
    /\ parser = NewParser(<<>>, 1)

\* run(source) is entered: Scanner(source)
EnterRun(src) ==
    /\ source' = src
    /\ scanner' = NewScanner
    /\ pc' = "scan"
    /\ ran' = {"Scanner"}
    /\ reported' = {}
    /\ UNCHANGED <<had_error, had_runtime_error, stderr, mode, file, parsed, resolver,
                   INTERPRETER,
                   stmt_index, exit_status, next_id, parser>>

\* run_file: the file is read and run
RunFile ==
    /\ pc = "main"
    /\ mode = "file"
    /\ EnterRun(file)
    /\ UNCHANGED <<stdout, stdin>>

\* run_prompt: input("> ") returns a line that is not empty, which is run
ReadLine ==
    /\ pc = "main"
    /\ mode = "repl"
    /\ stdin # <<>>
    /\ Head(stdin) # <<>>
    /\ stdout' = Append(stdout, Prompt)
    /\ stdin' = Tail(stdin)
    /\ EnterRun(Head(stdin))

\* run_prompt: the empty line breaks the loop, and the process ends
ReadEmptyLine ==
    /\ pc = "main"
    /\ mode = "repl"
    /\ stdin # <<>>
    /\ Head(stdin) = <<>>
    /\ stdout' = Append(stdout, Prompt)
    /\ stdin' = Tail(stdin)
    /\ pc' = "exited"
    /\ exit_status' = 0
    /\ UNCHANGED <<source, scanner, had_error, had_runtime_error, stderr, mode, file,
                   parsed,
                   resolver, INTERPRETER, stmt_index, ran, reported, next_id, parser>>

\* run_prompt: input() raises EOFError at the end of stdin, which nothing catches
ReadEOF ==
    /\ pc = "main"
    /\ mode = "repl"
    /\ stdin = <<>>
    /\ stdout' = Append(stdout, Prompt)
    /\ stderr' = Append(stderr, Traceback("EOFError"))
    /\ pc' = "exited"
    /\ exit_status' = 1
    /\ UNCHANGED <<source, scanner, had_error, had_runtime_error, stdin, mode, file, parsed,
                   resolver, INTERPRETER, stmt_index, ran, reported, next_id, parser>>

\* run(): what follows parser.parse(), r its result: the statements are kept and
\* had_error is checked
AfterParse(r, flag) ==
    /\ parsed' = r.node
    /\ parser' = r.p
    /\ next_id' = r.p.next_id
    /\ stderr' = stderr \o r.p.reports
    /\ had_error' = flag
    /\ reported' = IF r.p.reports # <<>> THEN reported \cup {"Parser"} ELSE reported
    /\ pc' = IF StopOnSyntaxError(flag) THEN "return" ELSE "resolve"

Flagged(r) == <<r, had_error \/ r.p.reports # <<>> >>

\* run(): Parser(tokens).parse(), then the check of had_error
Parse ==
    /\ pc = "scanned"
    /\ mode \in {"file", "repl"}
    /\ \E rf \in {Flagged(parse(scanner.tokens, next_id))} : AfterParse(rf[1], rf[2])
    /\ ran' = ran \cup {"Parser"}
    /\ UNCHANGED <<source, scanner, had_runtime_error, stdout, mode, file, stdin, resolver,
                   INTERPRETER, stmt_index, exit_status>>

\* run(): what follows resolver.resolve(statements), z its result: had_error is
\* checked and INTERPRETER.interpret(statements) is entered if it passes
AfterResolve(z, flag) ==
    /\ resolver' = z
    /\ INTERPRETER' = [INTERPRETER EXCEPT !.locals = z.locals, !.steps = 0]
    /\ stderr' = stderr \o z.reports
    /\ had_error' = flag
    /\ reported' = IF z.reports # <<>> THEN reported \cup {"Resolver"} ELSE reported
    /\ pc' = IF StopOnResolutionError(flag) THEN "return" ELSE "interpret"
    /\ ran' = IF StopOnResolutionError(flag) THEN ran \cup {"Resolver"}
              ELSE ran \cup {"Resolver", "Interpreter"}

\* run(): Resolver(INTERPRETER).resolve(statements), then the check of had_error
Resolve ==
    /\ pc = "resolve"
    /\ \E z \in {resolve(INTERPRETER.locals, parsed)} :
          AfterResolve(z, had_error \/ z.reports # <<>>)
    /\ stmt_index' = 1
    /\ UNCHANGED <<source, scanner, had_runtime_error, stdout, mode, file, stdin, parsed,
                   exit_status, next_id, parser>>

\* what self.execute(stmt) does to the statement the loop of interpret() is at
Executed == execute(INTERPRETER, parsed[stmt_index])

\* interpret(): the statement was executed, r the result, and the loop goes on
Continue(r) ==
    /\ r.sig = "ok"
    /\ INTERPRETER' = [r.st EXCEPT !.out = <<>>]
    /\ stdout' = stdout \o PrintedLines(r.st.out)
    /\ stmt_index' = stmt_index + 1
    /\ UNCHANGED <<pc, source, scanner, had_error, had_runtime_error, stderr, mode, file,
                   stdin, parsed, resolver, exit_status, ran, reported, next_id, parser>>

\* interpret(): "except error.LoxRuntimeError as e: error.runtime_error(e)"
Catch(r, e) ==
    /\ r.sig = "LoxRuntimeError"
    /\ INTERPRETER' = [r.st EXCEPT !.out = <<>>]
    /\ stdout' = stdout \o PrintedLines(r.st.out) \o e.stdout
    /\ had_runtime_error' = (had_runtime_error \/ e.had_runtime_error)
    /\ pc' = "return"
    /\ UNCHANGED <<source, scanner, had_error, stderr, mode, file, stdin, parsed, resolver,
                   stmt_index,
                   exit_status, ran, reported, next_id, parser>>

\* an exception that is not a LoxRuntimeError leaves interpret(), run() and main()
Escape(r) ==
    /\ r.sig \in {"ReturnError", "BreakWhileError", "PythonError"}
    /\ INTERPRETER' = [r.st EXCEPT !.out = <<>>]
    /\ stdout' = stdout \o PrintedLines(r.st.out)
    /\ stderr' = Append(stderr, Traceback(r.sig))
    /\ pc' = "exited"
    /\ exit_status' = 1
    /\ UNCHANGED <<source, scanner, had_error, had_runtime_error, mode, file, stdin, parsed,
                   resolver, stmt_index, ran, reported, next_id, parser>>

\* interpret(): a statement is executed and the loop goes on
Execute ==
    /\ pc = "interpret"
    /\ stmt_index <= Len(parsed)
    /\ \E r \in {Executed} : Continue(r)

\* interpret(): a statement raises LoxRuntimeError, which the except clause
\* hands to error.runtime_error; interpret() returns
InterpretCatch ==
    /\ pc = "interpret"
    /\ stmt_index <= Len(parsed)
    /\ \E r \in {Executed} : Catch(r, runtime_error(r))

\* interpret(): a statement raises another exception; nothing up to main()
\* catches it and Python ends the process with a traceback and status 1
InterpretEscape ==
    /\ pc = "interpret"
    /\ stmt_index <= Len(parsed)
    /\ \E r \in {Executed} : Escape(r)

\* interpret(): the loop is over
InterpretReturn ==
    /\ pc = "interpret"
    /\ stmt_index > Len(parsed)
    /\ pc' = "return"
    /\ UNCHANGED <<source, scanner, had_error, had_runtime_error, stderr, stdout, run_vars,
                   reported>>

\* run_file: run() returned without raising ErrorReported; main() returns and
\* the process ends with status 0
RunFileReturn ==
    /\ pc = "return"
    /\ mode = "file"
    /\ pc' = "exited"
    /\ exit_status' = 0
    /\ UNCHANGED <<source, scanner, had_error, had_runtime_error, stderr, stdout, mode,
                   file,
                   stdin, parsed, resolver, INTERPRETER, stmt_index, ran, reported, next_id,
                   parser>>

\* run_prompt: run() returned; the loop goes on to the next input()
RunPromptNext ==
    /\ pc = "return"
    /\ mode = "repl"
    /\ pc' = "main"
    /\ UNCHANGED <<source, scanner, had_error, had_runtime_error, stderr, stdout, run_vars,
                   reported>>

Next ==
    \/ RunFile
    \/ ReadLine
    \/ ReadEmptyLine
    \/ ReadEOF
    \/ ScanSingleToken
    \/ ScanReturn
    \/ Parse
    \/ Resolve
    \/ Execute
    \/ InterpretCatch
    \/ InterpretEscape
    \/ InterpretReturn
    \/ RunFileReturn
    \/ RunPromptNext

Spec == Init /\ [][Next]_vars

\* the process ended without a Python traceback
NoTraceback == \A i \in 1..Len(stderr) : stderr[i].where # "Traceback"

\* C2: in run(source) the Resolver is entered only when had_error is clear after
\* the scan and the parse, and interpret() only when it is still clear after the
\* Resolver, so that no statement is executed while had_error is set.
C2_StaticErrorStopsRun ==
    /\ pc = "resolve" => ~had_error
    /\ pc = "interpret" => (~had_error /\ reported = {})
    /\ "Interpreter" \in ran => "Resolver" \in ran

\* run() returned after the Resolver reported an error, without interpreting
C2_Witness ==
    /\ pc = "return"
    /\ had_error
    /\ reported = {"Resolver"}
    /\ "Interpreter" \notin ran

\* C3 as stated: the first stage that reports an error prevents every later
\* stage: after a scan error the Parser is not run and reports nothing, after a
\* parse error the Resolver is not run, after a resolve error the Interpreter is
\* not run.
C3_FirstErrorStopsLaterStages ==
    /\ "Scanner" \in reported => ("Parser" \notin ran /\ "Parser" \notin reported)
    /\ "Parser" \in reported => "Resolver" \notin ran
    /\ "Resolver" \in reported => "Interpreter" \notin ran

\* C3, amended: the Parser runs whether or not the Scanner reported an error, and
\* may report errors of its own on the same source; an error reported by the
\* Scanner or the Parser prevents the Resolver and the Interpreter, and an error
\* reported by the Resolver prevents the Interpreter.
C3_ErrorStopsAfterParser ==
    /\ pc \in {"resolve", "interpret", "return"} => "Parser" \in ran
    /\ reported \cap {"Scanner", "Parser"} # {} => ran \cap {"Resolver", "Interpreter"} = {}
    /\ "Resolver" \in reported => "Interpreter" \notin ran

\* run() returned on a source for which both the Scanner and the Parser reported
C3_Witness ==
    /\ pc = "return"
    /\ reported = {"Scanner", "Parser"}
    /\ ran = {"Scanner", "Parser"}

\* C4 as stated: a file run ends with status 0 when no error was reported, 65
\* when a scan, parse or resolve error was reported, 70 when a runtime error was.
C4_ExitStatus ==
    (mode = "file" /\ pc = "exited" /\ NoTraceback) =>
        exit_status = IF had_runtime_error THEN 70 ELSE IF had_error THEN 65 ELSE 0

\* C5 as stated: no diagnostic is written to stdout, which receives only the
\* output of print statements (and the prompt and echo of the REPL).
C5_DiagnosticsOnStderrOnly ==
    \A i \in 1..Len(stdout) : stdout[i].kind \in {"print", "prompt"}

\* C6 as stated, for the REPL: both flags are clear whenever a line is read, and
\* a line for which no stage reports an error is resolved and interpreted.
C6_FlagsClearedBetweenLines ==
    /\ (mode = "repl" /\ pc = "main") => (~had_error /\ ~had_runtime_error)
    /\ (mode = "repl" /\ pc = "return" /\ reported = {}) => "Interpreter" \in ran

\* the value of the expression statement the loop of interpret() is at
Evaluated == evaluate(INTERPRETER, parsed[stmt_index].expression)

\* C7 as stated: executing an expression statement writes, after what evaluating
\* it prints, the stringified value when the source came from the prompt, and
\* nothing when a file is run.
C7_ReplEchoesExpressionStatements ==
    [][(/\ pc = "interpret"
        /\ stmt_index <= Len(parsed)
        /\ parsed[stmt_index].tag = "Expression"
        /\ Evaluated.sig = "ok")
       => stdout' = stdout \o PrintedLines(Evaluated.st.out)
                       \o (IF mode = "repl"
                           THEN <<StdoutLine(stringify(Evaluated.st, Evaluated.value))>>
                           ELSE <<>>)]_vars

\* C8: when executing a statement raises LoxRuntimeError, interpret() reports it
\* after the output already written, sets had_runtime_error and returns with the
\* loop still at that statement; the interpreter keeps the state it had when the
\* error was raised, and nothing is executed once interpret() has returned.
C8_RuntimeErrorEndsInterpret ==
    [][/\ (pc = "interpret" /\ stmt_index <= Len(parsed) /\ Executed.sig = "LoxRuntimeError")
          => /\ had_runtime_error'
             /\ pc' = "return"
             /\ stmt_index' = stmt_index
             /\ stdout' = stdout \o PrintedLines(Executed.st.out)
                             \o <<RuntimeErrorLines(Executed.message, Executed.token)>>
             /\ INTERPRETER'.envs = Executed.st.envs
             /\ INTERPRETER'.objs = Executed.st.objs
       /\ pc = "return" => UNCHANGED <<INTERPRETER, stmt_index, parsed>>]_vars

\* run() returned from the second of three statements, after the first printed
C8_Witness ==
    /\ pc = "return"
    /\ had_runtime_error
    /\ Len(parsed) = 3
    /\ stmt_index = 2
    /\ Len(stdout) = 2
    /\ stdout[1] = StdoutLine(<<"1">>)
    /\ stdout[2].kind = "runtime_error"

\* C10 as stated: the methods of a class declared with a superclass close over
\* an environment that defines super, and the inheritance example prints A, B.
C10_MethodsCloseOverSuper ==
    /\ \A c \in 1..Len(INTERPRETER.objs) :
          (INTERPRETER.objs[c].class = "LoxClass" /\ INTERPRETER.objs[c].superclass # 0) =>
              \A m \in DOMAIN INTERPRETER.objs[c].methods :
                  Has(INTERPRETER.envs[INTERPRETER.objs[INTERPRETER.objs[c].methods[m]].closure].values,
                      SUPER)
    /\ (file = SuperProgram /\ pc = "exited") =>
          stdout = <<StdoutLine(<<"A">>), StdoutLine(<<"B">>)>>

(***************************************************************************)
(* SpecResolve: a Resolver visiting the nodes of a program one at a time:  *)
(* blocks entered and left, var statements and variable expressions over   *)
(* ResolveNames, in every order, at most MaxNodes nodes.                   *)
(***************************************************************************)
MaxNodes == 5

ResolveNames == {<<"a">>, <<"b">>}

Identifier(lexeme) == Token("IDENTIFIER", lexeme, NoneLiteral, 1)

ResolveInit ==
    /\ pc = "resolving"
    /\ mode = "resolve"
    /\ resolver = NewResolver(EmptyDict)
    /\ next_id = 1
    /\ parser = NewParser(<<>>, 1)
    /\ source = <<>>
    /\ scanner = NewScanner
    /\ had_error = FALSE
    /\ had_runtime_error = FALSE
    /\ stderr = <<>>
    /\ stdout = <<>>
    /\ file = <<>>
    /\ stdin = <<>>
    /\ parsed = <<>>
    /\ INTERPRETER = NewInterpreter
    /\ stmt_index = 0
    /\ exit_status = -1
    /\ ran = {"Resolver"}
    /\ reported = {}

\* what a visit leaves alone
ResolveFrame ==
    UNCHANGED <<pc, source, scanner, had_runtime_error, stdout, mode, file, stdin, parsed,
                INTERPRETER, stmt_index, exit_status, ran, parser>>

\* error.report for what the visit reported
Reported(z) ==
    /\ stderr' = stderr \o SubSeq(z.reports, Len(resolver.reports) + 1, Len(z.reports))
    /\ had_error' = (had_error \/ Len(z.reports) > Len(resolver.reports))
    /\ reported' = IF Len(z.reports) > Len(resolver.reports) THEN {"Resolver"} ELSE reported
    /\ resolver' = z

\* visit_block_stmt: begin_scope()
EnterBlock ==
    /\ pc = "resolving"
    /\ mode = "resolve"
    /\ next_id <= MaxNodes
    /\ resolver' = begin_scope(resolver)
    /\ next_id' = next_id + 1
    /\ UNCHANGED <<stderr, had_error, reported>>
    /\ ResolveFrame

\* visit_block_stmt: end_scope(), the statements of the block resolved
LeaveBlock ==
    /\ pc = "resolving"
    /\ mode = "resolve"
    /\ resolver.scopes # <<>>
    /\ resolver' = end_scope(resolver)
    /\ UNCHANGED <<stderr, had_error, reported, next_id>>
    /\ ResolveFrame

\* visit_var_stmt of "var <name>;"
VisitVar(name) ==
    /\ pc = "resolving"
    /\ mode = "resolve"
    /\ next_id <= MaxNodes
    /\ Reported(ResolveStmt(resolver, Var(Identifier(name), None)))
    /\ next_id' = next_id + 1
    /\ ResolveFrame

\* visit_variable_expr of the expression <name>, a node of identity next_id
VisitVariable(name) ==
    /\ pc = "resolving"
    /\ mode = "resolve"
    /\ next_id <= MaxNodes
    /\ Reported(ResolveExpr(resolver, Variable(next_id, Identifier(name))))
    /\ next_id' = next_id + 1
    /\ ResolveFrame

ResolveNext ==
    \/ EnterBlock
    \/ LeaveBlock
    \/ \E name \in ResolveNames : VisitVar(name)
    \/ \E name \in ResolveNames : VisitVariable(name)

SpecResolve == ResolveInit /\ [][ResolveNext]_vars

\* the scope nearest to the top of the stack that holds the name, 0 if none
NearestScopeWith(scopes, lexeme) ==
    IF \E i \in 1..Len(scopes) : Has(scopes[i], lexeme)
    THEN CHOOSE i \in 1..Len(scopes) :
            /\ Has(scopes[i], lexeme)
            /\ \A j \in (i + 1)..Len(scopes) : ~Has(scopes[j], lexeme)
    ELSE 0

\* C9 as stated: when a reference is resolved and some local scope declares its
\* name, the depth recorded for it in the side table is the distance from the
\* current scope to the nearest scope that declares the name.
C9_BindsInnermostScope ==
    [][\A name \in ResolveNames :
          (VisitVariable(name) /\ NearestScopeWith(resolver.scopes, name) # 0)
          => /\ Has(resolver'.locals, next_id)
             /\ resolver'.locals[next_id] =
                   Len(resolver.scopes) - NearestScopeWith(resolver.scopes, name)]_vars

(***************************************************************************)
(* Variables without a value.                                              *)
(***************************************************************************)
\* the names the global environment binds
GlobalNames == DOMAIN INTERPRETER.envs[GlobalsEnv].values

\* visit_variable_expr on a reference to the global of that name
ReadGlobal(lexeme) ==
    look_up_variable(INTERPRETER, Identifier(lexeme), Variable(0, Identifier(lexeme)))

\* C11 as stated: reading a variable that was declared without an initializer and
\* has not been assigned since raises the runtime error "Variable 'x' is
\* unassigned."; reading a variable bound to nil yields nil without an error.
C11_UnassignedReadRaises ==
    \A lexeme \in GlobalNames :
       LET value == INTERPRETER.envs[GlobalsEnv].values[lexeme]
           r == ReadGlobal(lexeme)
       IN  /\ value = UNASSIGNED =>
                /\ r.sig = "LoxRuntimeError"
                /\ r.token.lexeme = lexeme
                /\ r.message = "Variable '{name.lexeme}' is unassigned."
           /\ value = NoneLiteral => r.sig = "ok" /\ r.value = NoneLiteral

(***************************************************************************)
(* break and the loop it leaves.                                           *)
(***************************************************************************)
\* a break statement in the node that no loop of the same function body encloses;
\* in_loop: the node is inside a loop of the function body it belongs to
RECURSIVE StrayBreak(_, _)
StrayBreak(node, in_loop) ==
    LET any(nodes, flag) == \E i \in 1..Len(nodes) : StrayBreak(nodes[i], flag)
    IN  CASE node.tag = "Break" -> ~in_loop
          [] node.tag = "While" ->
                StrayBreak(node.condition, in_loop) \/ StrayBreak(node.body, TRUE)
          [] node.tag = "Block" -> any(node.statements, in_loop)
          [] node.tag = "If" ->
                any(<<node.condition, node.then_branch, node.else_branch>>, in_loop)
          [] node.tag = "Function" -> StrayBreak(node.function, in_loop)
          [] node.tag = "Lambda" -> any(node.body, FALSE)
          [] node.tag = "Class" -> any(node.methods, in_loop)
          [] node.tag \in {"Expression", "Print", "Grouping"} ->
                StrayBreak(node.expression, in_loop)
          [] node.tag = "Var" -> StrayBreak(node.initializer, in_loop)
          [] node.tag \in {"Return", "Assign"} -> StrayBreak(node.value, in_loop)
          [] node.tag \in {"Binary", "Logical"} -> any(<<node.left, node.right>>, in_loop)
          [] node.tag = "Unary" -> StrayBreak(node.right, in_loop)
          [] node.tag = "Conditional" ->
                any(<<node.condition, node.if_true, node.if_false>>, in_loop)
          [] node.tag = "Call" -> any(<<node.callee>> \o node.arguments, in_loop)
          [] node.tag = "Get" -> StrayBreak(node.object, in_loop)
          [] node.tag = "Set" -> any(<<node.object, node.value>>, in_loop)
          [] OTHER -> FALSE

\* C12 as stated: a program the parser accepts has no break outside the loops of
\* the function, lambda or method body it is written in, and no BreakWhileError
\* leaves a call and interpret() uncaught.
C12_BreakCannotEscapeCall ==
    /\ ("Parser" \in ran /\ "Parser" \notin reported) =>
          \A i \in 1..Len(parsed) : ~StrayBreak(parsed[i], FALSE)
    /\ \A i \in 1..Len(stderr) : stderr[i] # Traceback("BreakWhileError")

(***************************************************************************)
(* Calls.  The properties below apply the interpreter's call to the values *)
(* the global environment holds in the reachable states of Spec.           *)
(***************************************************************************)
GlobalValues == {INTERPRETER.envs[GlobalsEnv].values[lexeme] : lexeme \in GlobalNames}

CallArguments == {<<>>, <<NumValue(1)>>, <<NumValue(1), NumValue(2)>>}

\* the expression callee(arguments...), callee and arguments already values
CallOf(callee, arguments) ==
    Call(Literal(callee), Token("RIGHT_PAREN", <<")">>, NoneLiteral, 1),
         [i \in 1..Len(arguments) |-> Literal(arguments[i])])

\* the number of parameters the declaration of a callable names: those of the
\* function or lambda, none for clock, those of the init method for a class
DeclaredArity(st, callee) ==
    LET obj == st.objs[callee.n]
    IN  CASE callee.t = "LoxFunction" -> Len(obj.declaration.function.params)
          [] callee.t = "LoxLambda" -> Len(obj.declaration.params)
          [] callee.t = "Clock" -> 0
          [] callee.t = "LoxClass" ->
                IF find_method(st, callee.n, INIT) = 0 THEN 0
                ELSE Len(st.objs[find_method(st, callee.n, INIT)].declaration.function.params)

\* C13: a call of a value that is not callable ends in "Can only call functions
\* and classes.", a call of a callable with an argument count other than its
\* arity in "Expected N but got M."; in both cases nothing of the callee ran (the
\* interpreter is as it was), so the callee is entered only when it is callable
\* and the count matches.
C13_CallChecksCalleeAndArity ==
    \A callee \in GlobalValues, arguments \in CallArguments :
       \A r \in {visit_call_expr(INTERPRETER, CallOf(callee, arguments))} :
          /\ ~IsCallable(callee) =>
                /\ r.sig = "LoxRuntimeError"
                /\ r.message = "Can only call functions and classes."
                /\ r.st = INTERPRETER
          /\ (IsCallable(callee) /\ Len(arguments) # DeclaredArity(INTERPRETER, callee)) =>
                /\ r.sig = "LoxRuntimeError"
                /\ r.message = "Expected {callee.arity} but got {len(arguments)}."
                /\ r.counts = <<DeclaredArity(INTERPRETER, callee), Len(arguments)>>
                /\ r.st = INTERPRETER
          /\ r.st # INTERPRETER =>
                IsCallable(callee) /\ Len(arguments) = DeclaredArity(INTERPRETER, callee)

\* the globals hold a number, an instance, and a function and a class of arity 1;
\* the call of the function with one argument runs its body, the call with none
\* is refused
C13_Witness ==
    /\ \E callee \in GlobalValues : callee.t = "num"
    /\ \E callee \in GlobalValues : callee.t = "LoxInstance"
    /\ \E callee \in GlobalValues :
          /\ callee.t = "LoxClass"
          /\ DeclaredArity(INTERPRETER, callee) = 1
    /\ \E callee \in GlobalValues :
          /\ callee.t = "LoxFunction"
          /\ DeclaredArity(INTERPRETER, callee) = 1
          /\ visit_call_expr(INTERPRETER, CallOf(callee, <<NumValue(1)>>)).st.out
                = Append(INTERPRETER.out, <<"1">>)
          /\ visit_call_expr(INTERPRETER, CallOf(callee, <<>>)).sig = "LoxRuntimeError"

(***************************************************************************)
(* Classes and initializers.                                               *)
(***************************************************************************)
InitArguments == CallArguments \cup {<<BoolValue(FALSE)>>}

\* the call ended by returning, not by a runtime error or by the model's bound
Returned(r) == r.sig \notin {"LoxRuntimeError", "PythonError", "OutOfSteps"}

\* C14: a call of a class that returns yields the instance it created, whether
\* the class has no init, an init that falls off its end or one that executes a
\* bare return; and a call of init on an instance that returns yields that
\* instance.
C14_ClassCallYieldsInstance ==
    /\ \A class \in GlobalValues, arguments \in InitArguments :
          (class.t = "LoxClass" /\ Len(arguments) = DeclaredArity(INTERPRETER, class)) =>
             \A r \in {Callable_call(INTERPRETER, class, arguments)} :
                Returned(r) =>
                   /\ r.sig = "ok"
                   /\ r.value = ObjValue("LoxInstance", Len(INTERPRETER.objs) + 1)
                   /\ r.st.objs[r.value.n].class = "LoxInstance"
                   /\ r.st.objs[r.value.n].klass = class.n
    /\ \A instance \in GlobalValues, arguments \in InitArguments :
          (instance.t = "LoxInstance") =>
             \A g \in {LoxInstance_get(INTERPRETER, instance, Identifier(INIT))} :
                (g.sig = "ok" /\ Len(arguments) = DeclaredArity(g.st, g.value)) =>
                   \A r \in {Callable_call(g.st, g.value, arguments)} :
                      Returned(r) => r.sig = "ok" /\ r.value = instance

\* the program whose init executes a bare return or falls off its end has run:
\* C(true) returned through the bare return, c.init(false) at the end of init, and
\* the program printed that c.init(false) is c
C14_Witness ==
    /\ pc = "exited"
    /\ file = ReturnProgram
    /\ stdout = <<StdoutLine(<<"t", "r", "u", "e">>)>>
    /\ \E class \in GlobalValues :
          /\ class.t = "LoxClass"
          /\ DeclaredArity(INTERPRETER, class) = 1
          /\ Callable_call(INTERPRETER, class, <<BoolValue(TRUE)>>).sig = "ok"
          /\ Callable_call(INTERPRETER, class, <<BoolValue(FALSE)>>).sig = "ok"

(***************************************************************************)
(* Property lookup.                                                        *)
(***************************************************************************)
PropertyNames == {<<"f">>, <<"g">>, <<"h">>}

\* a class, its superclass, the superclass of that one, ...
RECURSIVE ClassChain(_, _)
ClassChain(st, class) ==
    IF class = 0 THEN <<>> ELSE <<class>> \o ClassChain(st, st.objs[class].superclass)

\* the positions of the chain whose class declares the method
Declaring(st, chain, lexeme) ==
    {i \in 1..Len(chain) : Has(st.objs[chain[i]].methods, lexeme)}

\* the method of that name the class nearest in the chain declares
NearestMethod(st, chain, lexeme) ==
    LET i == CHOOSE k \in Declaring(st, chain, lexeme) :
                \A j \in Declaring(st, chain, lexeme) : k <= j
    IN  st.objs[chain[i]].methods[lexeme]

\* C15: reading a property of an instance yields the field of that name if the
\* instance has one; otherwise the method of that name of the instance's class or
\* of the nearest superclass that declares one, as a new function whose closure
\* binds this to the instance on top of the method's closure; otherwise the
\* runtime error "Undefined property NAME.".
C15_PropertyLookupOrder ==
    \A instance \in GlobalValues, lexeme \in PropertyNames :
       instance.t = "LoxInstance" =>
          LET st == INTERPRETER
              fields == st.objs[instance.n].fields
              chain == ClassChain(st, st.objs[instance.n].klass)
              r == LoxInstance_get(st, instance, Identifier(lexeme))
          IN  IF Has(fields, lexeme) THEN r = Done(st, fields[lexeme])
              ELSE IF Declaring(st, chain, lexeme) # {}
              THEN /\ r.sig = "ok"
                   /\ r.value.t = "LoxFunction"
                   /\ r.value.n > Len(st.objs)
                   /\ LET method == st.objs[NearestMethod(st, chain, lexeme)]
                          bound == r.st.objs[r.value.n]
                      IN  /\ bound.declaration = method.declaration
                          /\ r.st.envs[bound.closure].values = DictSet(EmptyDict, THIS, instance)
                          /\ r.st.envs[bound.closure].enclosing = method.closure
              ELSE /\ r.sig = "LoxRuntimeError"
                   /\ r.message = "Undefined property {name.lexeme}."
                   /\ r.token.lexeme = lexeme

\* an instance whose field g shadows a method g of a superclass, whose class
\* overrides the method f of the superclass, and that has no property h
C15_Witness ==
    \E instance \in GlobalValues :
       /\ instance.t = "LoxInstance"
       /\ LET st == INTERPRETER
              chain == ClassChain(st, st.objs[instance.n].klass)
          IN  /\ Has(st.objs[instance.n].fields, <<"g">>)
              /\ Declaring(st, chain, <<"g">>) = {2}
              /\ Declaring(st, chain, <<"f">>) = {1, 2}
              /\ Declaring(st, chain, <<"h">>) = {}
              /\ LoxInstance_get(st, instance, Identifier(<<"g">>)).value = NumValue(4)
              /\ LoxInstance_get(st, instance, Identifier(<<"h">>)).sig = "LoxRuntimeError"

(***************************************************************************)
(* SpecEqual: interpret() on the one statement "print LEFT OP RIGHT;" for  *)
(* every pair of values out of EqualValues and OP one of == and !=.        *)
(***************************************************************************)
EqualValues ==
    {NoneLiteral, BoolValue(TRUE), BoolValue(FALSE), NumValue(0), NumValue(1),
     StrValue(<<"1">>), StrValue(<<"t", "r", "u", "e">>), ObjValue("Clock", ClockObj)}

EqualityOperators ==
    {Token("EQUAL_EQUAL", <<"=", "=">>, NoneLiteral, 1),
     Token("BANG_EQUAL", <<"!", "=">>, NoneLiteral, 1)}

EqualInit ==
    /\ \E left \in EqualValues, right \in EqualValues, operator \in EqualityOperators :
          parsed = <<PrintStmt(Binary(Literal(left), operator, Literal(right)))>>
    /\ pc = "interpret"
    /\ stmt_index = 1
    /\ mode = "file"
    /\ file = <<>>
    /\ stdin = <<>>
    /\ source = <<>>
    /\ scanner = NewScanner
    /\ had_error = FALSE
    /\ had_runtime_error = FALSE
    /\ stderr = <<>>
    /\ stdout = <<>>
    /\ resolver = NewResolver(EmptyDict)
    /\ INTERPRETER = NewInterpreter
    /\ exit_status = -1
    /\ ran = {"Scanner", "Parser", "Resolver", "Interpreter"}
    /\ reported = {}
    /\ next_id = 1
    /\ parser = NewParser(<<>>, 1)

EqualNext == Execute \/ InterpretReturn

SpecEqual == EqualInit /\ [][EqualNext]_vars

\* two values are of the same kind and equal: nil and nil, two equal booleans, two
\* equal numbers, two equal strings, or one and the same object
SameKindAndEqual(a, b) == a.t = b.t /\ a = b

BoolChars(b) == IF b THEN <<"t", "r", "u", "e">> ELSE <<"f", "a", "l", "s", "e">>

\* C16 as stated: == yields true exactly for two values of the same kind that are
\* equal (or the same object), so never for true and 1 or false and 0; != yields
\* the negation; neither raises an error.
C16_EqualityRespectsKinds ==
    LET e == parsed[1].expression
        same == SameKindAndEqual(e.left.value, e.right.value)
        expected == IF e.operator.type = "EQUAL_EQUAL" THEN same ELSE ~same
    IN  /\ stmt_index = 1 => Executed.sig = "ok"
        /\ stmt_index = 2 => stdout = <<StdoutLine(BoolChars(expected))>>

(***************************************************************************)
(* Closures.                                                               *)
(***************************************************************************)
\* the global of that name
Global(st, lexeme) == st.envs[GlobalsEnv].values[lexeme]

\* what the call printed last
LastPrinted(r) == Last(r.st.out)

\* C17: a call of a function runs in a new environment whose parent is the
\* function's closure, and the function keeps its closure.  The closure is the
\* environment the declaration was executed in: in "var c; fun m() { var i = 0;
\* fun n() { i = i + 1; print i; } c = n; }" the function a call of m stores in c
\* counts 1, 2, 3 over its calls, and a counter made by another call of m starts
\* at 1 and leaves the first one alone.
C17_ClosuresKeepDeclarationEnvironment ==
    /\ \A f \in GlobalValues, arguments \in CallArguments :
          (/\ f.t \in {"LoxFunction", "LoxLambda"}
           /\ Len(arguments) = DeclaredArity(INTERPRETER, f)) =>
             \A r \in {Callable_call(INTERPRETER, f, arguments)} :
                /\ Len(r.st.envs) > Len(INTERPRETER.envs)
                /\ r.st.envs[Len(INTERPRETER.envs) + 1].enclosing
                      = INTERPRETER.objs[f.n].closure
                /\ r.st.objs[f.n] = INTERPRETER.objs[f.n]
    /\ (file = CounterProgram /\ pc = "interpret" /\ stmt_index = 6) =>
          LET first == Global(INTERPRETER, <<"c">>)
              made == Callable_call(INTERPRETER, Global(INTERPRETER, <<"m">>), <<>>)
              second == Global(made.st, <<"c">>)
              r1 == Callable_call(made.st, second, <<>>)
              r2 == Callable_call(r1.st, first, <<>>)
              r3 == Callable_call(r2.st, second, <<>>)
          IN  /\ stdout = <<StdoutLine(<<"1">>), StdoutLine(<<"2">>)>>
              /\ second # first
              /\ LastPrinted(r1) = <<"1">>
              /\ LastPrinted(r2) = <<"3">>
              /\ LastPrinted(r3) = <<"2">>
    /\ (file = CounterProgram /\ pc = "exited") =>
          stdout = <<StdoutLine(<<"1">>), StdoutLine(<<"2">>), StdoutLine(<<"1">>)>>

\* the counter program has run to its end: the first counter was called twice,
\* then a second counter was made and called
C17_Witness ==
    /\ file = CounterProgram
    /\ pc = "exited"
    /\ stdout = <<StdoutLine(<<"1">>), StdoutLine(<<"2">>), StdoutLine(<<"1">>)>>
    /\ Global(INTERPRETER, <<"c">>).t = "LoxFunction"
    /\ INTERPRETER.objs[Global(INTERPRETER, <<"c">>).n].closure # GlobalsEnv

(***************************************************************************)
(* Blocks and the current environment.                                     *)
(***************************************************************************)
\* the statement interpret() is at is a block
AtBlock ==
    /\ pc = "interpret"
    /\ stmt_index <= Len(parsed)
    /\ parsed[stmt_index].tag = "Block"

\* C18: however a block ends (normally, by a runtime error, by a return or by a
\* break), execute_block leaves Interpreter.environment as it was before the
\* block; so does every statement interpret() executes, and between the
\* statements and after interpret() the environment is globals.
C18_BlockRestoresEnvironment ==
    /\ INTERPRETER.environment = GlobalsEnv
    /\ (pc = "interpret" /\ stmt_index <= Len(parsed)) =>
          \A r \in {Executed} : r.st.environment = INTERPRETER.environment
    /\ AtBlock =>
          \A e \in {NewEnv(INTERPRETER, INTERPRETER.environment)} :
             \A r \in {execute_block(e.st, parsed[stmt_index].statements, e.env)} :
                /\ r.st.environment = INTERPRETER.environment
                /\ Len(r.st.envs) > Len(INTERPRETER.envs)

\* interpret() has returned after a runtime error raised inside a block: the
\* block's environment was created and is not the current one
C18_Witness ==
    /\ file = BlockErrorProgram
    /\ pc = "exited"
    /\ had_runtime_error
    /\ Len(INTERPRETER.envs) = 2
    /\ Has(INTERPRETER.envs[2].values, <<"a">>)
    /\ INTERPRETER.environment = GlobalsEnv

(***************************************************************************)
(* SpecComment: Scanner(source).scan_tokens() on every source that opens   *)
(* a block comment, at the start of the source or after a token or a line  *)
(* break, and goes on for at most MaxComment characters of                 *)
(* CommentAlphabet.                                                        *)
(***************************************************************************)
CommentPrefixes == {<<>>, <<"1">>, <<"\n">>}
CommentAlphabet == {"*", "/", "\n", "1"}
CommentOpening == <<"/", "*">>

CommentInit ==
    /\ source \in {pre \o CommentOpening \o body :
                      pre \in CommentPrefixes, body \in SeqsUpTo(CommentAlphabet, MaxComment)}
    /\ pc = "scan"
    /\ scanner = NewScanner
    /\ had_error = FALSE
    /\ had_runtime_error = FALSE
    /\ stderr = <<>>
    /\ stdout = <<>>
    /\ mode = "scan"
    /\ file = <<>>
    /\ stdin = <<>>
    /\ parsed = <<>>
    /\ resolver = NewResolver(EmptyDict)
    /\ INTERPRETER = NewInterpreter
    /\ stmt_index = 0
    /\ exit_status = -1
    /\ ran = {"Scanner"}
    /\ reported = {}
    /\ next_id = 1
    /\ parser = NewParser(<<>>, 1)

SpecComment == CommentInit /\ [][ScanNext]_vars

\* the source in front of the "/*"
Before ==
    CHOOSE pre \in CommentPrefixes :
        /\ Len(source) >= Len(pre) + 2
        /\ SubSeq(source, 1, Len(pre) + 2) = pre \o CommentOpening
\* the source after the "/*"
Inside == SubSeq(source, Len(Before) + 3, Len(source))
\* the line the scanner is at when it meets the "/*"
OpenLine == 1 + Cardinality({i \in 1..Len(Before) : Before[i] = "\n"})
\* the scanner has gone through the comment
PastComment == scanner.current >= Len(Before) + 2

Least(S) == CHOOSE i \in S : \A j \in S : i <= j
Closings == {i \in 1..(Len(Inside) - 1) : Inside[i] = "*" /\ Inside[i + 1] = "/"}
Closed == Closings # {}
\* the comment's text, between "/*" and the next "*/", and the source after the "*/"
CommentText == SubSeq(Inside, 1, Least(Closings) - 1)
AfterComment == SubSeq(Inside, Least(Closings) + 2, Len(Inside))
\* the source with a blank in the place of the comment
WithoutComment == Before \o <<" ">> \o AfterComment

Shape(tokens) ==
    [i \in 1..Len(tokens) |-> <<tokens[i].type, tokens[i].lexeme, tokens[i].literal>>]
Messages(reports) == [i \in 1..Len(reports) |-> reports[i].message]
\* the scan of the source gave what the scan of the source without the comment gives
SameAsWithoutComment ==
    \A w \in {scan_tokens(WithoutComment)} :
        /\ Shape(scanner.tokens) = Shape(w.sc.tokens)
        /\ Messages(stderr) = Messages(w.reports)

\* C19 as stated: a block comment from "/*" to the next "*/" produces no token and
\* no diagnostic, and the tokens after it have the types, lexemes and literals they
\* have without the comment.
C19_BlockCommentLeavesNoTrace ==
    (pc = "scanned" /\ Closed) => SameAsWithoutComment

\* C19, amended: a block comment from "/*" to the next "*/" whose text holds no "*"
\* produces no token and no diagnostic, and the tokens and diagnostics of the
\* source are those of the source without the comment, whatever follows the comment.
C19_StarlessBlockCommentLeavesNoTrace ==
    (pc = "scanned" /\ Closed /\ \A i \in 1..Len(CommentText) : CommentText[i] # "*")
        => SameAsWithoutComment

\* a finished scan of "1", a comment of two lines and "1": two numbers, no diagnostic
C19_Witness ==
    /\ pc = "scanned"
    /\ Closed
    /\ Before = <<"1">>
    /\ CommentText = <<"\n", "1">>
    /\ AfterComment = <<"1">>
    /\ Shape(scanner.tokens) = <<<<"NUMBER", <<"1">>, float(<<"1">>)>>,
                                 <<"NUMBER", <<"1">>, float(<<"1">>)>>,
                                 <<"EOF", <<>>, NoneLiteral>>>>
    /\ stderr = <<>>

Stars == {i \in 1..Len(Inside) : Inside[i] = "*"}
\* the comment's first "*" is not followed by "/"
StrayStar == Stars # {} /\ Least(Stars) \notin Closings
\* the comment's first "*" is followed by a character that is not "/"
StrayStarInside == StrayStar /\ Least(Stars) < Len(Inside)

\* C20 as stated: the first "*" of a block comment that is not followed by "/" is
\* reported as "Unexpected character." at the line the comment opened on.
C20_StrayStarIsUnexpectedCharacter ==
    (PastComment /\ StrayStar) =>
        /\ stderr # <<>>
        /\ stderr[1] = error_line(OpenLine, "Unexpected character.")

\* C20, amended: the first "*" of a block comment that is followed by a character
\* other than "/" is reported as "Unexpected character."; one that ends the source
\* is reported as "Unclosed block comment."; either report carries the line the
\* comment opened on, however many line breaks the comment holds before the "*".
C20_StrayStarInsideIsUnexpectedCharacter ==
    (PastComment /\ StrayStar) =>
        /\ stderr # <<>>
        /\ stderr[1] = error_line(OpenLine,
                                  IF StrayStarInside THEN "Unexpected character."
                                  ELSE "Unclosed block comment.")

\* a comment opened on line 2 with a stray "*" on its third line
C20_Witness ==
    /\ pc = "scanned"
    /\ Before = <<"\n">>
    /\ Inside = <<"\n", "\n", "*", "1">>
    /\ stderr = <<error_line(2, "Unexpected character.")>>
    /\ Len(scanner.tokens) = 2

\* some report of the scan has this message
ScanReported(message) == \E i \in 1..Len(stderr) : stderr[i].message = message

\* C21 as stated: a "/*" with no "*/" after it before the end of the source makes
\* the scanner report "Unclosed block comment.".
C21_UnclosedCommentIsReported ==
    (pc = "scanned" /\ ~Closed) => ScanReported("Unclosed block comment.")

\* C21, amended: a "/*" followed up to the end of the source by no "*", or by a
\* first "*" that is the last character of the source, makes the scanner report
\* "Unclosed block comment." at the line the comment opened on, and nothing else.
C21_StarlessUnclosedCommentIsReported ==
    (PastComment /\ (Stars = {} \/ Least(Stars) = Len(Inside))) =>
        /\ stderr = <<error_line(OpenLine, "Unclosed block comment.")>>
        /\ is_at_end(source, scanner)

\* a finished scan of "1" and an unclosed comment of two lines
C21_Witness ==
    /\ pc = "scanned"
    /\ Before = <<"1">>
    /\ Inside = <<"\n", "1">>
    /\ stderr = <<error_line(1, "Unclosed block comment.")>>
    /\ Len(scanner.tokens) = 2

(***************************************************************************)
(* The line counter.                                                       *)
(***************************************************************************)
\* 1 plus the number of line breaks among the first n characters of the source
LineAfter(n) == 1 + Cardinality({i \in 1..n : source[i] = "\n"})

\* C22: every line break of the source advances the line counter once, wherever
\* it lies: after each step of the scan the counter is 1 plus the number of line
\* breaks the scanner has passed, and that is the line of the token the step
\* emitted (the EOF token included).
C22_LineCountsEveryNewline ==
    [][/\ scanner'.line = LineAfter(scanner'.current)
       /\ Len(scanner'.tokens) > Len(scanner.tokens) =>
             Last(scanner'.tokens).line = LineAfter(scanner'.current)]_vars

(***************************************************************************)
(* Assignment to something that is not a variable or a property.           *)
(***************************************************************************)
InvalidTargetPrograms == {AssignTargetProgram, GroupTargetProgram}
\* the parser has run on a program "TARGET=2;print 3;"
ParsedInvalidTarget == file \in InvalidTargetPrograms /\ "Parser" \in ran
EqualsAt == CHOOSE i \in 1..Len(file) : file[i] = "="
\* the programs "TARGET;print 3;" and "2;print 3;"
TargetOnly == SubSeq(file, 1, EqualsAt - 1) \o SubSeq(file, EqualsAt + 2, Len(file))
ValueOnly == SubSeq(file, EqualsAt + 1, Len(file))
ParseOf(src) == parse(scan_tokens(src).sc.tokens, 1).node
\* the one diagnostic, at the "=", and no statement dropped by synchronize()
InvalidTargetReported ==
    /\ stderr = <<Diag(1, " at '", <<"=">>, "Invalid assignment target.")>>
    /\ Len(parsed) = 2
    /\ parsed[2] = PrintStmt(Literal(NumValue(3)))
    /\ \A i \in 1..Len(parsed) : parsed[i] # InvalidDeclatation

\* C23 as stated: an assignment whose left-hand side is neither a Variable nor a
\* Get is reported as "Invalid assignment target." without synchronization, and
\* the expression returned for it is the right-hand side.
C23_InvalidTargetYieldsValue ==
    ParsedInvalidTarget =>
        /\ InvalidTargetReported
        /\ \A expected \in {ParseOf(ValueOnly)} : parsed = expected

\* C23, amended: an assignment whose left-hand side is neither a Variable nor a
\* Get is reported as "Invalid assignment target." without synchronization (the
\* statements after it are parsed and none is dropped), and the expression
\* returned for it is the left-hand side; the right-hand side is discarded.
C23_InvalidTargetYieldsTarget ==
    ParsedInvalidTarget =>
        /\ InvalidTargetReported
        /\ \A expected \in {ParseOf(TargetOnly)} : parsed = expected

\* run() has returned on "(a)=2;print 3;": the statement kept is the grouping
C23_Witness ==
    /\ file = GroupTargetProgram
    /\ pc = "exited"
    /\ had_error
    /\ "Interpreter" \notin ran
    /\ parsed[1].tag = "Expression"
    /\ parsed[1].expression.tag = "Grouping"
    /\ parsed[1].expression.expression.tag = "Variable"

(***************************************************************************)
(* The order of a call: callee, arguments, checks.                         *)
(***************************************************************************)
\* the expression callee(arguments...), the callee a value, the arguments expressions
CallWith(callee, arguments) ==
    Call(Literal(callee), Token("RIGHT_PAREN", <<")">>, NoneLiteral, 1), arguments)
\* the argument "(name = 2)", name a global: an argument is an equality, so an
\* assignment stands in parentheses
SetGlobal(lexeme) == Grouping(Assign(0, Identifier(lexeme), Literal(NumValue(2))))
\* an argument that raises: a read of a variable nothing declares
Undeclared == Variable(0, Identifier(<<"z", "z">>))
\* the globals a call of "name = 2" changes
Assignable == {lexeme \in GlobalNames : Global(INTERPRETER, lexeme) # NumValue(2)}
NotCallable == {value \in GlobalValues : ~IsCallable(value)}

\* the arguments are evaluated from the left: the error of an argument leaves the
\* effects of those before it and none of those after it
ArgumentsLeftToRight ==
    \A callee \in GlobalValues, lexeme \in Assignable :
       /\ \A r \in {visit_call_expr(INTERPRETER,
                                    CallWith(callee, <<SetGlobal(lexeme), Undeclared>>))} :
             /\ r.sig = "LoxRuntimeError"
             /\ r.message = UndefinedVariable
             /\ Global(r.st, lexeme) = NumValue(2)
       /\ \A r \in {visit_call_expr(INTERPRETER,
                                    CallWith(callee, <<Undeclared, SetGlobal(lexeme)>>))} :
             /\ r.sig = "LoxRuntimeError"
             /\ r.message = UndefinedVariable
             /\ r.st = INTERPRETER

\* C24 as stated: a callee that is not callable raises "Can only call functions
\* and classes." before any argument is evaluated, so no effect of an argument
\* occurs; the arguments of a callable are evaluated left to right.
C24_CalleeCheckedBeforeArguments ==
    /\ \A callee \in NotCallable, lexeme \in Assignable :
          \A r \in {visit_call_expr(INTERPRETER, CallWith(callee, <<SetGlobal(lexeme)>>))} :
             /\ r.sig = "LoxRuntimeError"
             /\ r.message = "Can only call functions and classes."
             /\ r.st = INTERPRETER
    /\ ArgumentsLeftToRight

\* C24, amended: the arguments of a call are evaluated left to right before the
\* callee is checked: when the callee is not callable, "Can only call functions
\* and classes." is raised after every argument has been evaluated and with the
\* arguments' effects done, and an error raised by an argument comes instead of it.
C24_ArgumentsEvaluatedBeforeCalleeCheck ==
    /\ \A callee \in NotCallable, lexeme \in Assignable :
          \A r \in {visit_call_expr(INTERPRETER, CallWith(callee, <<SetGlobal(lexeme)>>))} :
             /\ r.sig = "LoxRuntimeError"
             /\ r.message = "Can only call functions and classes."
             /\ Global(r.st, lexeme) = NumValue(2)
             /\ r.st = [INTERPRETER EXCEPT
                           !.envs[GlobalsEnv].values[lexeme] = NumValue(2)]
    /\ ArgumentsLeftToRight
    /\ (file = ArgumentsProgram /\ pc = "exited") =>
          /\ stdout # <<>>
          /\ stdout[1] = StdoutLine(<<"6">>)
          /\ Global(INTERPRETER, <<"a">>) = NumValue(7)
          /\ had_runtime_error

\* interpret() has returned on the program that calls the number a with the
\* argument (a = a + 1)
C24_Witness ==
    /\ file = ArgumentsProgram
    /\ pc = "exited"
    /\ NotCallable # {}
    /\ Assignable # {}
    /\ had_runtime_error

(***************************************************************************)
(* What print shows of a value that is not a primitive.                    *)
(***************************************************************************)
InstanceSuffix == <<" ", "i", "n", "s", "t", "a", "n", "c", "e">>
\* the name of the class of an instance and the name a function was declared with
ClassNameOf(st, value) == st.objs[st.objs[value.n].klass].name
FunctionNameOf(st, value) == st.objs[value.n].declaration.name.lexeme
\* what the claim says of functions, lambdas and the native clock
CallableDisplay(st, value) ==
    CASE value.t = "LoxFunction" -> <<"<", "f", "n", " ">> \o FunctionNameOf(st, value) \o <<">">>
      [] value.t = "LoxLambda" ->
            <<"<", "a", "n", "o", "n", "y", "m", "o", "u", "s", " ", "f", "n", ">">>
      [] value.t = "Clock" -> <<"<", "n", "a", "t", "i", "v", "e", " ", "f", "n", ">">>
Displayed == {value \in GlobalValues : value.t \in {"LoxFunction", "LoxLambda", "Clock"}}
Instances == {value \in GlobalValues : value.t = "LoxInstance"}
DisplayProgramEnded == file = DisplayProgram /\ pc = "exited"

\* C25 as stated: an instance of class C prints as "<C instance>", a named
\* function f as "<fn f>", a lambda as "<anonymous fn>" and the native clock as
\* "<native fn>".
C25_DisplayNamesAreBracketed ==
    /\ \A value \in Displayed :
          stringify(INTERPRETER, value) = CallableDisplay(INTERPRETER, value)
    /\ \A value \in Instances :
          stringify(INTERPRETER, value)
             = <<"<">> \o ClassNameOf(INTERPRETER, value) \o InstanceSuffix \o <<">">>
    /\ DisplayProgramEnded =>
          stdout = <<StdoutLine(<<"<", "C">> \o InstanceSuffix \o <<">">>),
                     StdoutLine(<<"<", "f", "n", " ", "f", ">">>),
                     StdoutLine(CallableDisplay(INTERPRETER, Value("LoxLambda", 0, 0, <<>>))),
                     StdoutLine(CallableDisplay(INTERPRETER, Value("Clock", 0, 0, <<>>)))>>

\* C25, amended: an instance of class C prints as "C instance", without
\* brackets; a named function f prints as "<fn f>", a lambda as "<anonymous fn>"
\* and the native clock as "<native fn>".
C25_DisplayNames ==
    /\ \A value \in Displayed :
          stringify(INTERPRETER, value) = CallableDisplay(INTERPRETER, value)
    /\ \A value \in Instances :
          stringify(INTERPRETER, value) = ClassNameOf(INTERPRETER, value) \o InstanceSuffix
    /\ DisplayProgramEnded =>
          stdout = <<StdoutLine(<<"C">> \o InstanceSuffix),
                     StdoutLine(<<"<", "f", "n", " ", "f", ">">>),
                     StdoutLine(CallableDisplay(INTERPRETER, Value("LoxLambda", 0, 0, <<>>))),
                     StdoutLine(CallableDisplay(INTERPRETER, Value("Clock", 0, 0, <<>>)))>>

\* the program that prints an instance, a function, a lambda and clock has ended,
\* and its globals hold one of each
C25_Witness ==
    /\ DisplayProgramEnded
    /\ Len(stdout) = 4
    /\ Instances # {}
    /\ \A kind \in {"LoxFunction", "LoxLambda", "Clock"} :
          \E value \in Displayed : value.t = kind

(***************************************************************************)
(* Resolved depths and the chain of environments.                          *)
(***************************************************************************)
\* the functions a class holds as its methods: they are called only once bound
MethodIds ==
    UNION {{INTERPRETER.objs[c].methods[m] : m \in DOMAIN INTERPRETER.objs[c].methods} :
              c \in {i \in 1..Len(INTERPRETER.objs) : INTERPRETER.objs[i].class = "LoxClass"}}
\* the functions and bound methods of the heap
CallableFunctions ==
    {i \in 1..Len(INTERPRETER.objs) :
        INTERPRETER.objs[i].class = "LoxFunction" /\ i \notin MethodIds}
BodyOf(i) == INTERPRETER.objs[i].declaration.function.body
\* the statements of a body that print or evaluate a resolved Variable, Assign or This
ResolvedReads(body) ==
    {k \in 1..Len(body) :
        /\ body[k].tag \in {"Print", "Expression"}
        /\ body[k].expression.tag \in {"Variable", "Assign", "This"}
        /\ Has(INTERPRETER.locals, body[k].expression.id)
        /\ INTERPRETER.locals[body[k].expression.id] >= 1}
LexemeOf(node) == IF node.tag = "This" THEN THIS ELSE node.name.lexeme
\* the environment distance links above the environment of a call of function i
AboveCall(i, distance) == ancestor(INTERPRETER, INTERPRETER.objs[i].closure, distance - 1)

\* C26: the environment that lies as many links above the current one as the
\* Resolver recorded for a Variable, Assign or This node exists and holds the
\* name, also in the methods of a class that has a superclass: so it is for the
\* nodes of the body of every function and bound method of the heap, and the
\* method of a subclass that prints the variable a of the enclosing block
\* prints its value 1.
C26_DepthsMatchEnvironmentChain ==
    /\ \A i \in CallableFunctions :
          \A k \in ResolvedReads(BodyOf(i)) :
             \A e \in {AboveCall(i, INTERPRETER.locals[BodyOf(i)[k].expression.id])} :
                /\ e # 0
                /\ Has(INTERPRETER.envs[e].values, LexemeOf(BodyOf(i)[k].expression))
    /\ (file = DepthProgram /\ pc = "exited") => stdout = <<StdoutLine(<<"1">>)>>

(***************************************************************************)
(* Names declared in a local scope.                                        *)
(***************************************************************************)
OwnInitializer == "Can't read local variable in its own initializer."

\* C27: "Can't read local variable in its own initializer." is reported only for
\* a read inside the variable's own initializer; a class declaration leaves the
\* name of the class DEFINED in the scope it was declared in, so the block that
\* declares a class and then calls it resolves without a diagnostic and runs.
C27_ClassNameIsDefinedInItsScope ==
    /\ (file = LocalClassProgram /\ "Parser" \in ran) =>
          \A z \in {Resolver_visit_class_stmt(begin_scope(NewResolver(EmptyDict)),
                                              parsed[1].statements[1])} :
             /\ Len(z.scopes) = 1
             /\ Has(z.scopes[1], <<"A">>)
             /\ z.scopes[1][<<"A">>] = "DEFINED"
    /\ (file = LocalClassProgram /\ pc = "exited") =>
          /\ \A i \in 1..Len(stderr) : stderr[i].message # OwnInitializer
          /\ "Interpreter" \in ran

(***************************************************************************)
(* What leaves interpret().                                                *)
(***************************************************************************)
\* the Python exceptions that ended a run, but for the EOFError that ends run_prompt
Escaped ==
    {stderr[i].message : i \in {j \in 1..Len(stderr) :
                                   /\ stderr[j].where = "Traceback"
                                   /\ stderr[j].message # "EOFError"}}

\* C28: when the Scanner, the Parser and the Resolver accepted the program,
\* interpret() completes or reports a Lox runtime error: no BreakWhileError, no
\* ReturnError, no RuntimeError of Environment.ancestor and no other Python
\* exception leaves it.
C28_OnlyLoxErrorsLeaveInterpret ==
    "Interpreter" \in ran => Escaped = {}

(***************************************************************************)
(* SpecParse: Parser(tokens).parse() on the tokens of every source put     *)
(* together from at most MaxFragments of ParseFragments, one iteration of  *)
(* the loop of parse() per step.                                           *)
(***************************************************************************)
ParseFragments ==
    { <<"w", "h", "i", "l", "e", "(", "1", ")">>,
      <<";">>,
      <<"b", "r", "e", "a", "k", ";">>,
      <<"{">>,
      <<"}">>,
      <<"1", " ">>,
      <<"c", "l", "a", "s", "s", " ", "a", "{">>,
      <<"a", "(", ")", "{">> }

RECURSIVE Flatten(_)
Flatten(fragments) ==
    IF fragments = <<>> THEN <<>> ELSE Head(fragments) \o Flatten(Tail(fragments))

ParseInit ==
    /\ source \in {Flatten(fragments) : fragments \in SeqsUpTo(ParseFragments, MaxFragments)}
    /\ scanner = scan_tokens(source).sc
    /\ parser = NewParser(scanner.tokens, 1)
    /\ parsed = <<>>
    /\ pc = "parse"
    /\ mode = "parse"
    /\ had_error = FALSE
    /\ had_runtime_error = FALSE
    /\ stderr = <<>>
    /\ stdout = <<>>
    /\ file = <<>>
    /\ stdin = <<>>
    /\ resolver = NewResolver(EmptyDict)
    /\ INTERPRETER = NewInterpreter
    /\ stmt_index = 0
    /\ exit_status = -1
    /\ ran = {"Scanner", "Parser"}
    /\ reported = {}
    /\ next_id = 1

\* "statements.append(self.declaration())", d what declaration() yields
AppendDeclaration(d) ==
    /\ parser' = d.p
    /\ parsed' = Append(parsed, d.node)
    /\ next_id' = d.p.next_id
    /\ stderr' = d.p.reports
    /\ had_error' = (d.p.reports # <<>>)
    /\ reported' = IF d.p.reports # <<>> THEN {"Parser"} ELSE reported

\* one iteration of "while not self.is_at_end()" of parse()
ParseDeclaration ==
    /\ pc = "parse"
    /\ ~Parser_is_at_end(parser)
    /\ \E d \in {Parser_rule("declaration", parser)} : AppendDeclaration(d)
    /\ UNCHANGED <<pc, source, scanner, had_runtime_error, stdout, mode, file, stdin,
                   resolver, INTERPRETER, stmt_index, exit_status, ran>>

\* the loop of parse() ends: the statements are returned
ParseReturn ==
    /\ pc = "parse"
    /\ Parser_is_at_end(parser)
    /\ pc' = "parsed"
    /\ UNCHANGED <<source, scanner, had_error, had_runtime_error, stderr, stdout, run_vars,
                   reported>>

ParseNext == ParseDeclaration \/ ParseReturn

SpecParse == ParseInit /\ [][ParseNext]_vars

\* the parser at the i-th token, inside depth loops
ParserAt(i, depth) ==
    [NewParser(scanner.tokens, 1) EXCEPT !.current = i, !.loop_depth = depth]
\* the positions in front of a token that is not EOF
Positions == 0..(Len(scanner.tokens) - 2)

\* C29: every iteration of the loop of parse() consumes a token, so parse() has
\* made no more iterations than it has consumed tokens, and it ends at EOF; from
\* every position of the tokens and inside or outside a loop, an iteration of the
\* loop of block() (a declaration(), with or without a ParseError and
\* synchronize()) and an iteration of the loop of class_declaration() (a
\* function() that returns) consume a token.
C29_ParseLoopsConsumeTokens ==
    /\ Len(parsed) <= parser.current
    /\ pc = "parsed" =>
          /\ Parser_is_at_end(parser)
          /\ \A i \in Positions, depth \in {0, 1} :
                /\ \A d \in {declaration(ParserAt(i, depth))} :
                      d.ok /\ d.p.current > i
                /\ \A m \in {function(ParserAt(i, depth), "METHOD")} :
                      m.ok => m.p.current > i

\* parse() has returned the statement that stands for a ParseError, on tokens
\* that hold a method and a block
C29_Witness ==
    /\ pc = "parsed"
    /\ had_error
    /\ \E k \in 1..Len(parsed) : parsed[k] = InvalidDeclatation
    /\ \E i \in Positions : function(ParserAt(i, 0), "METHOD").ok
    /\ \E i \in Positions : declaration(ParserAt(i, 1)).node.tag = "Block"

\* C30: between the statements of the program no loop body is being parsed, so
\* loop_depth is 0, also after a ParseError inside the body of a loop; and a break
\* that parse() returns as a statement of its own, outside every loop, has been
\* reported with "Must be inside a loop to use 'break'.".
C30_LoopDepthIsRestored ==
    /\ parser.loop_depth = 0
    /\ (\E k \in 1..Len(parsed) : parsed[k] = Break) =>
          \E i \in 1..Len(stderr) : stderr[i].message = "Must be inside a loop to use 'break'."

====
